---- MODULE Spec2Model ----
(***************************************************************************)
(* A model of the document-processor pipeline: the format parser           *)
(* (utils/documentParser.js), the metrics extractor / recovery parser /    *)
(* metrics merger (utils/metricsExtractor.js), the optimize-process        *)
(* handler and the process-documents combiner.                             *)
(*                                                                         *)
(* Every request is an independent unit of work (no state is shared        *)
(* between requests), so a behaviour of the model is one request: Init     *)
(* draws the kind of request and its input, the actions are the steps of   *)
(* the code that serves it.                                                *)
(***************************************************************************)
EXTENDS Integers, Sequences, FiniteSets, TLC

VARIABLES
    req,        \* which unit of work this behaviour is: "parse", ...
    parseIn,    \* parseDocument's arguments [mime, content]
    parsePc,    \* position inside parseDocument
    parseExc,   \* the exception in flight inside parseDocument's try, or NoExc
    parseFailed, \* history: the extractor of the branch taken failed for good
    parseOut,   \* what parseDocument's caller observes: a completion
    pdfAttempts, \* history: the pdfParse attempts made, with their outcomes
    mergeIn,    \* the generated artifacts: [diagram, doc] (+ opt once merged)
    mergePc,    \* position in the metrics part of the process-documents handler
    workflowMetrics,  \* extractWorkflowMetrics(workflowDiagram.diagram)
    documentMetrics,  \* extractProcessMetrics(formattedDocument.content)
    finalMetrics,     \* mergeMetrics(workflowMetrics, documentMetrics[, opt])
    processMetrics,   \* the handler's processMetrics built from finalMetrics
    againMetrics,     \* merges of the merged result: [withDoc, withSelf, docSelf]
    optIn,      \* the optimize-process request: [method, body]
    optPc,      \* position inside the optimize-process handler
    optText,    \* optimizationResult: the text the LLM call returned
    optError,   \* the primary provider call's error, once it has failed
    tiersRun,   \* history: the strategies parseOptimizationResult has tried
    parsedResult,   \* the completion of parseOptimizationResult
    optResponse, \* the handler's response [status, body]
    combineIn,  \* processedDocuments, the argument of combineDocumentData
    combinePc,  \* position around the handler's call of combineDocumentData
    combinedData, \* what combineDocumentData returned
    uploadIn,   \* the process-documents request: [method, form]
    uploadPc,   \* position inside the process-documents handler
    documentFiles,  \* the files the handler collected from the form
    processedDocs,  \* processedDocuments: one entry per file handled so far
    tempFiles,  \* the upload directory: temporary file -> "present", ...
    genErrors,  \* history: the errors of the failed document generation calls
    uploadResponse, \* the handler's response [status, body]
    files,      \* FileUploader: the pending upload list
    uploadError \* FileUploader: the error shown, or NoUploadError

parseVars == <<parseIn, parsePc, parseExc, parseFailed, parseOut, pdfAttempts>>

mergeVars == <<mergeIn, mergePc, workflowMetrics, documentMetrics, finalMetrics,
               processMetrics, againMetrics>>

optVars == <<optIn, optPc, optText, optError, tiersRun, parsedResult, optResponse>>

combineVars == <<combineIn, combinePc, combinedData>>

uploadVars == <<uploadIn, uploadPc, documentFiles, processedDocs, tempFiles,
                genErrors, uploadResponse>>

uploaderVars == <<files, uploadError>>

vars == <<req, parseIn, parsePc, parseExc, parseFailed, parseOut, pdfAttempts,
          mergeIn, mergePc, workflowMetrics, documentMetrics, finalMetrics,
          processMetrics, againMetrics,
          optIn, optPc, optText, optError, tiersRun, parsedResult, optResponse,
          combineIn, combinePc, combinedData,
          uploadIn, uploadPc, documentFiles, processedDocs, tempFiles,
          genErrors, uploadResponse, files, uploadError>>

----------------------------------------------------------------------------
(* Generic helpers *)

Range(s) == {s[i] : i \in 1..Len(s)}

SeqsUpTo(S, n) == UNION {[1..k -> S] : k \in 0..n}

NonEmptySeqsUpTo(S, n) == UNION {[1..k -> S] : k \in 1..n}

\* A JavaScript completion: a normal return or a thrown exception.
Return(v) == [k |-> "return", v |-> v]

Throw(m) == [k |-> "throw", m |-> m]

Idle == [k |-> "idle"]

NoExc == "none"

\* Messages of the exceptions the runtime and the libraries raise.  The
\* libraries (pdf-parse, mammoth, xlsx) reject with Error objects, whose
\* message is a non-empty string.
LibMessages == {"bad XRef entry", "Can't find end of central directory"}

TypeErrorMessage == "x is not a function"

----------------------------------------------------------------------------
(* utils/documentParser.js *)

MaxLines == 2

MaxMarkers == 2

\* The substrings parseDocument looks for in the mime type.
MimeMarkers == {"pdf", "msword", "officedocument.wordprocessingml.document",
                "csv", "excel", "spreadsheetml.sheet"}

\* A mime type is undefined, a truthy non-string (no .includes), or a string,
\* known by the markers it contains.
MimeTypes ==
    {[t |-> "undefined"], [t |-> "nonstring"]}
    \cup {[t |-> "string", has |-> S] :
            S \in {M \in SUBSET MimeMarkers : Cardinality(M) <= MaxMarkers}}

\* Lines of a delimited text, as sequences of characters.
CsvLines ==
    { <<>>,
      <<"a">>,
      <<"a", ",", "b">>,
      <<"b", ",", "c", ",">>,
      <<"\"", "a", ",", "b", "\"", ",", "c">>,
      <<"a", ";", "b">>,
      <<" ">> }

\* A string is the sequence of its lines; String.prototype.split never
\* returns an empty array, so there is at least one line (the empty string
\* is one empty line).
TextStrings == NonEmptySeqsUpTo(CsvLines, MaxLines)

\* fileContent: a string, a byte buffer (Buffer / Uint8Array), undefined, or
\* some other object.
FileContents ==
    {[t |-> "undefined"], [t |-> "object"], [t |-> "buffer"]}
    \cup {[t |-> "string", lines |-> ls] : ls \in TextStrings}

IsSpace(c) == c \in {" ", "\t"}

RECURSIVE TrimLeft(_)
TrimLeft(s) ==
    IF s = <<>> THEN s
    ELSE IF IsSpace(Head(s)) THEN TrimLeft(Tail(s)) ELSE s

RECURSIVE TrimRight(_)
TrimRight(s) ==
    IF s = <<>> THEN s
    ELSE IF IsSpace(s[Len(s)]) THEN TrimRight(SubSeq(s, 1, Len(s) - 1)) ELSE s

\* String.prototype.trim
Trim(s) == TrimRight(TrimLeft(s))

IsQuote(c) == c \in {"\"", "'"}

\* s.replace(/^["'](.*)["']$/, '$1')
StripQuotes(s) ==
    IF Len(s) >= 2 /\ IsQuote(s[1]) /\ IsQuote(s[Len(s)])
    THEN SubSeq(s, 2, Len(s) - 1)
    ELSE s

CleanField(s) == StripQuotes(Trim(s))

\* String.prototype.split(delimiter) on one line: always at least one part.
RECURSIVE SplitFrom(_, _, _, _)
SplitFrom(line, delimiter, i, cur) ==
    IF i > Len(line) THEN <<cur>>
    ELSE IF line[i] = delimiter
         THEN <<cur>> \o SplitFrom(line, delimiter, i + 1, <<>>)
         ELSE SplitFrom(line, delimiter, i + 1, Append(cur, line[i]))

Split(line, delimiter) == SplitFrom(line, delimiter, 1, <<>>)

\* The scanner of parseCSVLine, from position i with the loop's locals.
RECURSIVE CSVScan(_, _, _, _, _, _)
CSVScan(line, delimiter, i, insideQuotes, currentStr, result) ==
    IF i > Len(line)
    THEN IF currentStr # <<>>
         THEN Append(result, CleanField(currentStr))
         ELSE result
    ELSE IF line[i] = "\"" /\ (i = 1 \/ line[i - 1] # "\\")
         THEN CSVScan(line, delimiter, i + 1, ~insideQuotes, currentStr, result)
         ELSE IF line[i] = delimiter /\ ~insideQuotes
              THEN CSVScan(line, delimiter, i + 1, insideQuotes, <<>>,
                           Append(result, CleanField(currentStr)))
              ELSE CSVScan(line, delimiter, i + 1, insideQuotes,
                           Append(currentStr, line[i]), result)

\* A plain split at every delimiter, quotes or not.
parseCSVLineBySplit(line, delimiter) ==
    LET parts == Split(line, delimiter)
    IN  [j \in 1..Len(parts) |-> CleanField(parts[j])]

parseCSVLine(line, delimiter) ==
    CSVScan(line, delimiter, 1, FALSE, <<>>, <<>>)

\* The delimiter parseCsvContent detects on the first line.
DetectDelimiter(firstLine) ==
    IF "\t" \in Range(firstLine) /\ Len(Split(firstLine, "\t")) > 1 THEN "\t"
    ELSE IF ";" \in Range(firstLine) /\ Len(Split(firstLine, ";")) > 1 THEN ";"
    ELSE ","

CsvHeaders(firstLine, delimiter) ==
    LET parts == Split(firstLine, delimiter)
    IN  [j \in 1..Len(parts) |-> CleanField(parts[j])]

\* row[headers[j]] = vals[j] !== undefined ? vals[j] : ''   (a later column
\* of the same name overwrites an earlier one)
RowObject(headers, vals) ==
    [h \in Range(headers) |->
        LET j == CHOOSE x \in 1..Len(headers) :
                    /\ headers[x] = h
                    /\ \A y \in 1..Len(headers) : headers[y] = h => y <= x
        IN  IF j <= Len(vals) THEN vals[j] ELSE <<>>]

RECURSIVE CsvRows(_, _, _, _)
CsvRows(lines, headers, delimiter, i) ==
    IF i > Len(lines) THEN <<>>
    ELSE IF Trim(lines[i]) = <<>>
         THEN CsvRows(lines, headers, delimiter, i + 1)
         ELSE <<RowObject(headers, parseCSVLine(lines[i], delimiter))>>
              \o CsvRows(lines, headers, delimiter, i + 1)

\* The record parseCsvContent returns when content.split yields no line.
CsvNoLines(content) ==
    [content |-> [t |-> "raw", of |-> content.t], type |-> "csv", parsed |-> FALSE]

\* parseCsvContent: synchronous, with its own try/catch around everything.
\* A content that is no string has no .includes or no .split: a TypeError,
\* caught, and the raw content handed back.
parseCsvContent(content) ==
    IF content.t # "string"
    THEN Return([content |-> [t |-> "raw", of |-> content.t], type |-> "text",
                 parsed |-> FALSE, error |-> TypeErrorMessage])
    ELSE LET lines == content.lines
         IN  IF Len(lines) = 0
             THEN Return(CsvNoLines(content))
             ELSE LET delimiter == DetectDelimiter(lines[1])
                      headers == CsvHeaders(lines[1], delimiter)
                  IN  Return([content |-> [t |-> "rows",
                                           rows |-> CsvRows(lines, headers, delimiter, 2)],
                              headers |-> headers,
                              type |-> "csv", parsed |-> TRUE])

\* parseTextContent: byte buffers are decoded (a decoding failure is caught
\* and replaced by a notice), strings are taken as they are, anything else
\* goes through JSON.stringify, which returns undefined for undefined, and
\* undefined has no .replace: the TypeError leaves the function.
parseTextContent(content) ==
    IF content.t = "undefined"
    THEN Throw(TypeErrorMessage)
    ELSE Return([content |-> [t |-> "text"], type |-> "text", parsed |-> TRUE])

\* parseDocxContent, given what mammoth.extractRawText did.
parseDocxContent(lib) ==
    IF lib.k = "throw"
    THEN Return([content |-> [t |-> "diag"], type |-> "docx", parsed |-> FALSE,
                 error |-> lib.m])
    ELSE Return([content |-> [t |-> "text"], type |-> "docx", parsed |-> TRUE])

\* What XLSX.read + sheet_to_json(header: 1) yield: an exception, or the
\* first sheet's rows (row 0 the headers).
XlsxOutcomes ==
    {Throw(m) : m \in LibMessages}
    \cup {Return(rows) : rows \in { <<>>,
                                    << <<"A", "B">> >>,
                                    << <<"A", "B">>, <<"1">> >>,
                                    << <<"A", "B">>, <<>>, <<"1", "2">> >> }}

RECURSIVE ExcelRows(_, _, _)
ExcelRows(jsonData, headers, i) ==
    IF i > Len(jsonData) THEN <<>>
    ELSE IF Len(jsonData[i]) = 0
         THEN ExcelRows(jsonData, headers, i + 1)
         ELSE <<[h \in Range(headers) |->
                    LET j == CHOOSE x \in 1..Len(headers) :
                                /\ headers[x] = h
                                /\ \A y \in 1..Len(headers) : headers[y] = h => y <= x
                    IN  IF j <= Len(jsonData[i]) THEN jsonData[i][j] ELSE ""]>>
              \o ExcelRows(jsonData, headers, i + 1)

\* The record parseExcelContent returns for a sheet without rows.
ExcelEmpty ==
    [content |-> [t |-> "diag"], type |-> "excel", parsed |-> FALSE]

\* parseExcelContent, given what the xlsx library did.
parseExcelContent(lib) ==
    IF lib.k = "throw"
    THEN Return([content |-> [t |-> "diag"], type |-> "excel", parsed |-> FALSE,
                 error |-> lib.m])
    ELSE IF Len(lib.v) = 0
         THEN Return(ExcelEmpty)
         ELSE Return([content |-> [t |-> "rows",
                                   rows |-> ExcelRows(lib.v, lib.v[1], 2)],
                      headers |-> lib.v[1],
                      type |-> "excel", parsed |-> TRUE])

\* The record of parsePdfContent's primary attempt.
PdfPrimaryRecord ==
    [content |-> [t |-> "text"], type |-> "pdf", parsed |-> TRUE,
     structuredData |-> TRUE]

\* The record of parsePdfContent's option-free second attempt.
PdfFallbackRecord ==
    [content |-> [t |-> "text"], type |-> "pdf", parsed |-> TRUE,
     note |-> "Used fallback parsing method"]

\* A record that reports the second attempt's message.
PdfFailedRecordFallbackMessage(primaryMsg, fallbackMsg) ==
    [content |-> [t |-> "diag"], type |-> "pdf", parsed |-> FALSE,
     error |-> fallbackMsg]

\* The record after both attempts failed: the message is the primary one's.
PdfFailedRecord(primaryMsg, fallbackMsg) ==
    [content |-> [t |-> "diag"], type |-> "pdf", parsed |-> FALSE,
     error |-> primaryMsg]

\* The catch clause of parseDocument.
OuterCatch(msg) ==
    Return([content |-> [t |-> "diag"], type |-> "error", parsed |-> FALSE,
            error |-> msg])

\* The branch parseDocument's if-chain takes.
Dispatch(mime) ==
    IF mime.t = "undefined" THEN "text"
    ELSE IF mime.t = "nonstring" THEN "typeerror"
    ELSE IF "pdf" \in mime.has THEN "pdf"
    ELSE IF "msword" \in mime.has
            \/ "officedocument.wordprocessingml.document" \in mime.has THEN "docx"
    ELSE IF "csv" \in mime.has THEN "csv"
    ELSE IF "excel" \in mime.has \/ "spreadsheetml.sheet" \in mime.has THEN "excel"
    ELSE "text"

\* The await of parseTextContent dropped: its rejection passes the catch by.
InsideTryTextNotAwaited(branch) == branch \notin {"excel", "text"}

\* Whether an exception leaving the extractor of a branch is caught by
\* parseDocument's try: the pdf, docx and text extractors are awaited inside
\* it and the csv extractor is synchronous; parseExcelContent's promise is
\* returned without await, so its rejection would pass the catch clause by.
InsideTry(branch) == branch # "excel"

\* An extractor's completion has come back to parseDocument.
Settle(branch, c) ==
    IF c.k = "return"
    THEN /\ parsePc' = "done"
         /\ parseOut' = c
         /\ parseExc' = NoExc
    ELSE IF InsideTry(branch)
         THEN /\ parsePc' = "catch"
              /\ parseExc' = c.m
              /\ parseOut' = parseOut
         ELSE /\ parsePc' = "done"
              /\ parseOut' = c
              /\ parseExc' = NoExc

ParseInit ==
    /\ req = "parse"
    /\ parseIn \in [mime : MimeTypes, content : FileContents]
    /\ parsePc = "dispatch"
    /\ parseExc = NoExc
    /\ parseFailed = FALSE
    /\ parseOut = Idle
    /\ pdfAttempts = <<>>

ParseIdle ==
    /\ parseIn = Idle
    /\ parsePc = "idle"
    /\ parseExc = NoExc
    /\ parseFailed = FALSE
    /\ parseOut = Idle
    /\ pdfAttempts = <<>>

\* parseDocument, lines 8-30: the if-chain on the mime type.
ParseDispatch ==
    /\ req = "parse" /\ parsePc = "dispatch"
    /\ LET b == Dispatch(parseIn.mime)
       IN  IF b = "typeerror"
           THEN /\ parsePc' = "catch"
                /\ parseExc' = TypeErrorMessage
           ELSE /\ parsePc' = b
                /\ parseExc' = NoExc
    /\ parseFailed' = (Dispatch(parseIn.mime) = "typeerror")
    /\ UNCHANGED <<mergeVars, optVars, combineVars, uploadVars, uploaderVars, req, parseIn, pdfAttempts, parseOut>>

\* parsePdfContent, the primary attempt (pdfParse with the page renderer,
\* then the post-processing of the text).
PdfPrimary ==
    /\ req = "parse" /\ parsePc = "pdf"
    /\ \/ /\ Settle("pdf", Return(PdfPrimaryRecord))
          /\ pdfAttempts' = Append(pdfAttempts, [options |-> TRUE, outcome |-> "ok"])
       \/ \E m \in LibMessages :
            /\ parsePc' = "pdfFallback"
            /\ parseExc' = m
            /\ parseOut' = parseOut
            /\ pdfAttempts' = Append(pdfAttempts, [options |-> TRUE, outcome |-> m])
    /\ UNCHANGED <<mergeVars, optVars, combineVars, uploadVars, uploaderVars, req, parseIn, parseFailed>>

\* parsePdfContent, the fallback attempt inside the catch clause.
PdfFallback ==
    /\ req = "parse" /\ parsePc = "pdfFallback"
    /\ \/ /\ Settle("pdf", Return(PdfFallbackRecord))
          /\ parseFailed' = FALSE
          /\ pdfAttempts' = Append(pdfAttempts, [options |-> FALSE, outcome |-> "ok"])
       \/ \E m \in LibMessages :
            /\ Settle("pdf", Return(PdfFailedRecord(parseExc, m)))
            /\ parseFailed' = TRUE
            /\ pdfAttempts' = Append(pdfAttempts, [options |-> FALSE, outcome |-> m])
    /\ UNCHANGED <<mergeVars, optVars, combineVars, uploadVars, uploaderVars, req, parseIn>>

ParseDocx ==
    /\ req = "parse" /\ parsePc = "docx"
    /\ \E lib \in {Return("text")} \cup {Throw(m) : m \in LibMessages} :
         /\ Settle("docx", parseDocxContent(lib))
         /\ parseFailed' = (lib.k = "throw")
    /\ UNCHANGED <<mergeVars, optVars, combineVars, uploadVars, uploaderVars, req, parseIn, pdfAttempts>>

ParseCsv ==
    /\ req = "parse" /\ parsePc = "csv"
    /\ Settle("csv", parseCsvContent(parseIn.content))
    /\ parseFailed' = (parseIn.content.t # "string")
    /\ UNCHANGED <<mergeVars, optVars, combineVars, uploadVars, uploaderVars, req, parseIn, pdfAttempts>>

ParseExcel ==
    /\ req = "parse" /\ parsePc = "excel"
    /\ \E lib \in XlsxOutcomes :
         /\ Settle("excel", parseExcelContent(lib))
         /\ parseFailed' = (lib.k = "throw" \/ Len(lib.v) = 0)
    /\ UNCHANGED <<mergeVars, optVars, combineVars, uploadVars, uploaderVars, req, parseIn, pdfAttempts>>

ParseText ==
    /\ req = "parse" /\ parsePc = "text"
    /\ Settle("text", parseTextContent(parseIn.content))
    /\ parseFailed' = (parseTextContent(parseIn.content).k = "throw")
    /\ UNCHANGED <<mergeVars, optVars, combineVars, uploadVars, uploaderVars, req, parseIn, pdfAttempts>>

\* parseDocument, lines 31-39.
ParseCatch ==
    /\ req = "parse" /\ parsePc = "catch"
    /\ parsePc' = "done"
    /\ parseOut' = OuterCatch(parseExc)
    /\ parseExc' = NoExc
    /\ UNCHANGED <<mergeVars, optVars, combineVars, uploadVars, uploaderVars, req, parseIn, pdfAttempts, parseFailed>>

ParseNext ==
    \/ ParseDispatch
    \/ PdfPrimary
    \/ PdfFallback
    \/ ParseDocx
    \/ ParseCsv
    \/ ParseExcel
    \/ ParseText
    \/ ParseCatch

----------------------------------------------------------------------------
(* utils/metricsExtractor.js: time strings *)

\* A time string is either a literal word or a sequence of "<number> <unit>"
\* tokens; the empty string has neither.
Lit(w) == [lit |-> w, toks |-> <<>>]

Dur(toks) == [lit |-> "", toks |-> toks]

Unknown == Lit("Unknown")

NotSpecified == Lit("Not specified")

EmptyString == Lit("")

\* JavaScript truthiness of a string.
Truthy(str) == str # EmptyString

Tok(n, u) == [n |-> n, u |-> u]

NoDur == Tok(0, "none")

\* The unit words the regular expressions /hour|hr|h/, /minute|min|m/ and
\* /day|d/ match at their start.
HourUnits == {"hour", "hours", "hr", "hrs", "h"}

MinuteUnits == {"min", "mins", "minute", "minutes", "m"}

DayUnits == {"day", "days", "d"}

MinutesPerHour == 60

HoursPerWorkday == 8

\* The first token of toks whose unit is in units, or NoDur.
RECURSIVE FirstToken(_, _)
FirstToken(toks, units) ==
    IF toks = <<>> THEN NoDur
    ELSE IF Head(toks).u \in units THEN Head(toks)
    ELSE FirstToken(Tail(toks), units)

\* parseTimeToMinutes of metricsExtractor.js: the first hours token, the
\* first minutes token and the first days token, added up; 0 stands for the
\* null it returns when nothing positive was found.
parseTimeToMinutes(timeString) ==
    IF ~Truthy(timeString) THEN 0
    ELSE FirstToken(timeString.toks, HourUnits).n * MinutesPerHour
         + FirstToken(timeString.toks, MinuteUnits).n
         + FirstToken(timeString.toks, DayUnits).n * HoursPerWorkday * MinutesPerHour

\* Math.round(num / den * 100) for den > 0: halves round up.
RoundPercent(num, den) == (200 * num + den) \div (2 * den)

\* calculateTimeSavingsPercent: [null |-> TRUE] stands for its null.
calculateTimeSavingsPercent(originalTime, optimizedTime) ==
    LET originalMinutes == parseTimeToMinutes(originalTime)
        optimizedMinutes == parseTimeToMinutes(optimizedTime)
    IN  IF originalMinutes # 0 /\ optimizedMinutes # 0 /\ originalMinutes > 0
        THEN [null |-> FALSE,
              n |-> RoundPercent(originalMinutes - optimizedMinutes, originalMinutes)]
        ELSE [null |-> TRUE, n |-> 0]

\* `${n} hour${n !== 1 ? 's' : ''}`
Plural(n, unit) == Tok(n, IF n # 1 THEN unit \o "s" ELSE unit)

\* The total of extractWorkflowMetrics, formatted.
FormatTotal(totalTimeMinutes) ==
    IF totalTimeMinutes >= MinutesPerHour
    THEN LET hours == totalTimeMinutes \div MinutesPerHour
             minutes == totalTimeMinutes % MinutesPerHour
         IN  Dur(<<Plural(hours, "hour")>>
                 \o (IF minutes > 0 THEN <<Plural(minutes, "minute")>> ELSE <<>>))
    ELSE Dur(<<Plural(totalTimeMinutes, "minute")>>)

----------------------------------------------------------------------------
(* utils/metricsExtractor.js: extractWorkflowMetrics *)

MaxBoxes == 2

\* The boxes of a diagram, in text order.  kind: "step" is [Step N ...],
\* "qstep" is ["Step N ..."], "plain" any other label, "terminal" a label
\* containing start, end or begin; dur is the duration token in the label.
BoxShapes ==
    { [kind |-> "step", no |-> 1, dur |-> Tok(30, "min")],
      [kind |-> "step", no |-> 2, dur |-> NoDur],
      [kind |-> "step", no |-> 2, dur |-> Tok(1, "hour")],
      [kind |-> "plain", no |-> 0, dur |-> Tok(0, "min")],
      [kind |-> "qstep", no |-> 1, dur |-> Tok(1, "hour")],
      [kind |-> "plain", no |-> 0, dur |-> NoDur],
      [kind |-> "plain", no |-> 0, dur |-> Tok(2, "days")],
      [kind |-> "terminal", no |-> 0, dur |-> NoDur] }

\* diagramCode: missing (undefined or ""), a value that is no string (it has
\* no match method), or a text with its boxes.
Diagrams ==
    {[t |-> "missing", boxes |-> <<>>], [t |-> "nonstring", boxes |-> <<>>]}
    \cup {[t |-> "text", boxes |-> bs] : bs \in SeqsUpTo(BoxShapes, MaxBoxes)}

defaultMetrics ==
    [totalSteps |-> 0, totalTime |-> Unknown, timeEstimates |-> <<>>,
     stepTimes |-> <<>>]

RECURSIVE CountBoxes(_, _)
CountBoxes(boxes, kinds) ==
    IF boxes = <<>> THEN 0
    ELSE (IF Head(boxes).kind \in kinds THEN 1 ELSE 0) + CountBoxes(Tail(boxes), kinds)

\* timeMatches: every duration token of the text, in order.
RECURSIVE TimeEstimates(_)
TimeEstimates(boxes) ==
    IF boxes = <<>> THEN <<>>
    ELSE (IF Head(boxes).dur # NoDur THEN <<Head(boxes).dur>> ELSE <<>>)
         \o TimeEstimates(Tail(boxes))

\* A conversion that takes a day for 24 hours.
TokenMinutesCalendarDay(tok) ==
    IF tok.u \in HourUnits THEN tok.n * MinutesPerHour
    ELSE IF tok.u \in MinuteUnits THEN tok.n
    ELSE IF tok.u \in DayUnits THEN tok.n * MinutesPerHour * 24
    ELSE 0

\* The minutes one matched token adds to totalTimeMinutes.
TokenMinutes(tok) ==
    IF tok.u \in HourUnits THEN tok.n * MinutesPerHour
    ELSE IF tok.u \in MinuteUnits THEN tok.n
    ELSE IF tok.u \in DayUnits THEN tok.n * MinutesPerHour * HoursPerWorkday
    ELSE 0

RECURSIVE SumMinutes(_)
SumMinutes(toks) ==
    IF toks = <<>> THEN 0 ELSE TokenMinutes(Head(toks)) + SumMinutes(Tail(toks))

\* The first loop of extractStepTimesFromDiagram: unquoted step boxes that
\* carry a duration.
RECURSIVE PrimaryStepTimes(_)
PrimaryStepTimes(boxes) ==
    IF boxes = <<>> THEN <<>>
    ELSE (IF Head(boxes).kind = "step" /\ Head(boxes).dur # NoDur
          THEN <<[step |-> Head(boxes).no,
                  stepName |-> <<"Step", Head(boxes).no>>,
                  time |-> Dur(<<Head(boxes).dur>>)]>>
          ELSE <<>>)
         \o PrimaryStepTimes(Tail(boxes))

\* A second loop that numbers a step by the position of its box.
RECURSIVE SecondaryStepTimesNumberedByBox(_, _, _)
SecondaryStepTimesNumberedByBox(boxes, i, stepNumber) ==
    IF i > Len(boxes) THEN <<>>
    ELSE IF boxes[i].kind = "terminal"
         THEN SecondaryStepTimesNumberedByBox(boxes, i + 1, stepNumber)
         ELSE <<[step |-> i,
                 stepName |-> <<"Box", i>>,
                 time |-> IF boxes[i].dur # NoDur THEN Dur(<<boxes[i].dur>>)
                          ELSE Unknown]>>
              \o SecondaryStepTimesNumberedByBox(boxes, i + 1, stepNumber + 1)

\* The second loop: every box but the terminal ones, numbered densely.
RECURSIVE SecondaryStepTimes(_, _, _)
SecondaryStepTimes(boxes, i, stepNumber) ==
    IF i > Len(boxes) THEN <<>>
    ELSE IF boxes[i].kind = "terminal"
         THEN SecondaryStepTimes(boxes, i + 1, stepNumber)
         ELSE <<[step |-> stepNumber,
                 stepName |-> <<"Box", i>>,
                 time |-> IF boxes[i].dur # NoDur THEN Dur(<<boxes[i].dur>>)
                          ELSE Unknown]>>
              \o SecondaryStepTimes(boxes, i + 1, stepNumber + 1)

extractStepTimesFromDiagram(boxes) ==
    IF PrimaryStepTimes(boxes) # <<>>
    THEN PrimaryStepTimes(boxes)
    ELSE SecondaryStepTimes(boxes, 1, 1)

\* The early return for a missing diagram, the catch clause for the
\* TypeError of a diagram without match, else the counts and the total.
extractWorkflowMetrics(diagramCode) ==
    IF diagramCode.t \in {"missing", "nonstring"} THEN defaultMetrics
    ELSE LET boxes == diagramCode.boxes
             stepMatches == CountBoxes(boxes, {"step", "qstep"})
             totalSteps == IF stepMatches = 0
                           THEN CountBoxes(boxes, {"plain"})
                           ELSE stepMatches
             timeEstimates == TimeEstimates(boxes)
             hasValidTotalTime == timeEstimates # <<>>
         IN  [totalSteps |-> totalSteps,
              totalTime |-> IF hasValidTotalTime
                            THEN FormatTotal(SumMinutes(timeEstimates))
                            ELSE Unknown,
              timeEstimates |-> timeEstimates,
              stepTimes |-> extractStepTimesFromDiagram(boxes)]

----------------------------------------------------------------------------
(* utils/documentGenerator.js: extractProcessMetrics *)

MaxDocSteps == 2

\* What the generated HTML holds: the number in the "Total Steps" row
\* (0 when there is none), the text of the "Total Est. Time" cell, the
\* number of "Step N:" entries found, whether they were found in table rows
\* or by the text pattern, and whether JSDOM failed.
DocTimes == {NotSpecified, EmptyString, Dur(<<Tok(45, "minutes")>>)}

GeneratedDocuments ==
    [declared : 0..MaxDocSteps, found : 0..(MaxDocSteps + 1),
     viaTable : BOOLEAN, time : DocTimes, fails : {FALSE}]
    \cup {[declared |-> 0, found |-> 0, viaTable |-> FALSE, time |-> NotSpecified,
           fails |-> TRUE]}

\* A placeholder entry appended by a normalization loop.
Placeholder(k) ==
    [step |-> k, stepName |-> <<"Step", k>>, time |-> NotSpecified]

RECURSIVE PadTo(_, _)
PadTo(stepTimes, totalSteps) ==
    IF Len(stepTimes) >= totalSteps THEN stepTimes
    ELSE PadTo(Append(stepTimes, Placeholder(Len(stepTimes) + 1)), totalSteps)

extractProcessMetrics(doc) ==
    IF doc.fails
    THEN [totalSteps |-> 0, totalTime |-> Unknown, stepTimes |-> <<>>]
    ELSE LET found == [k \in 1..doc.found |->
                          [step |-> k, stepName |-> <<"Doc", k>>,
                           time |-> NotSpecified]]
             totalSteps == IF ~doc.viaTable /\ doc.found > 0 /\ doc.declared = 0
                           THEN doc.found
                           ELSE doc.declared
             stepTimes == IF Len(found) # totalSteps /\ totalSteps > 0
                          THEN IF Len(found) > totalSteps
                               THEN SubSeq(found, 1, totalSteps)
                               ELSE PadTo(found, totalSteps)
                          ELSE found
         IN  [totalSteps |-> totalSteps, totalTime |-> doc.time,
              stepTimes |-> stepTimes]

----------------------------------------------------------------------------
(* utils/metricsExtractor.js: mergeMetrics *)

DefaultSavingsPercent == 30

\* optimizationMetrics as passed by a caller: NoOptimization when the third
\* argument is left out; totalSteps 0 and totalTime "" stand for absent
\* fields.
NoOptimization == [given |-> FALSE]

OptimizationMetrics ==
    [given : {TRUE}, totalSteps : {0, 1},
     totalTime : {EmptyString, Unknown, Dur(<<Tok(30, "min")>>),
                  Dur(<<Tok(1, "hour")>>), Dur(<<Tok(2, "hours")>>),
                  Dur(<<Tok(2, "weeks")>>)},
     suggestions : {<<"s1">>}]

\* metrics.optimized
Optimized(metrics, optimizationMetrics) ==
    LET pct == calculateTimeSavingsPercent(metrics.totalTime,
                                           optimizationMetrics.totalTime)
    IN  [totalSteps |-> IF optimizationMetrics.totalSteps # 0
                        THEN optimizationMetrics.totalSteps
                        ELSE (metrics.totalSteps * 7) \div 10,
         totalTime |-> IF Truthy(optimizationMetrics.totalTime)
                       THEN optimizationMetrics.totalTime ELSE Unknown,
         suggestions |-> optimizationMetrics.suggestions,
         timeSavingsPercent |-> IF pct.null \/ pct.n = 0
                                THEN DefaultSavingsPercent ELSE pct.n]

\* A merge that appends the document's step times to the diagram's instead
\* of using them only as a fallback.
MergeBaseAppending(wf, doc) ==
    [wf EXCEPT
       !.totalSteps = IF wf.totalSteps = 0 THEN doc.totalSteps ELSE wf.totalSteps,
       !.totalTime = IF wf.totalTime = Unknown
                     THEN (IF Truthy(doc.totalTime) THEN doc.totalTime ELSE Unknown)
                     ELSE wf.totalTime,
       !.stepTimes = wf.stepTimes \o doc.stepTimes]

\* A merge with the precedence reversed: the document's values win whenever
\* the document has them.
MergeBaseDocumentFirst(wf, doc) ==
    [wf EXCEPT
       !.totalSteps = IF doc.totalSteps # 0 THEN doc.totalSteps ELSE wf.totalSteps,
       !.totalTime = IF Truthy(doc.totalTime) /\ doc.totalTime # Unknown
                     THEN doc.totalTime ELSE wf.totalTime,
       !.stepTimes = IF Len(doc.stepTimes) > 0
                     THEN doc.stepTimes ELSE wf.stepTimes]

\* The three fallbacks of mergeMetrics, lines 314-329, applied to the copy
\* { ...workflowMetrics }.
MergeBase(wf, doc) ==
    [wf EXCEPT
       !.totalSteps = IF wf.totalSteps = 0 THEN doc.totalSteps ELSE wf.totalSteps,
       !.totalTime = IF wf.totalTime = Unknown
                     THEN (IF Truthy(doc.totalTime) THEN doc.totalTime ELSE Unknown)
                     ELSE wf.totalTime,
       !.stepTimes = IF Len(wf.stepTimes) = 0 /\ Len(doc.stepTimes) > 0
                     THEN doc.stepTimes ELSE wf.stepTimes]

mergeMetrics(wf, doc, optimizationMetrics) ==
    LET metrics == MergeBase(wf, doc)
    IN  IF optimizationMetrics.given
        THEN metrics @@ [optimized |-> Optimized(metrics, optimizationMetrics)]
        ELSE metrics

\* The three fields of a ProcessMetrics.
Core(m) ==
    [totalSteps |-> m.totalSteps, totalTime |-> m.totalTime,
     stepTimes |-> m.stepTimes]

MergeInit ==
    /\ req = "merge"
    /\ mergeIn \in [diagram : Diagrams, doc : GeneratedDocuments]
    /\ mergePc = "extractDocument"
    /\ workflowMetrics = Idle
    /\ documentMetrics = Idle
    /\ finalMetrics = Idle
    /\ processMetrics = Idle
    /\ againMetrics = Idle

MergeIdle ==
    /\ mergeIn = Idle
    /\ mergePc = "idle"
    /\ workflowMetrics = Idle
    /\ documentMetrics = Idle
    /\ finalMetrics = Idle
    /\ processMetrics = Idle
    /\ againMetrics = Idle

\* process-documents handler, line 603
ExtractDocumentMetrics ==
    /\ req = "merge" /\ mergePc = "extractDocument"
    /\ documentMetrics' = extractProcessMetrics(mergeIn.doc)
    /\ mergePc' = "extractWorkflow"
    /\ UNCHANGED <<parseVars, optVars, combineVars, uploadVars, uploaderVars, req, mergeIn, workflowMetrics, finalMetrics,
                   processMetrics, againMetrics>>

\* process-documents handler, line 604
ExtractWorkflowMetrics ==
    /\ req = "merge" /\ mergePc = "extractWorkflow"
    /\ workflowMetrics' = extractWorkflowMetrics(mergeIn.diagram)
    /\ mergePc' = "merge"
    /\ UNCHANGED <<parseVars, optVars, combineVars, uploadVars, uploaderVars, req, mergeIn, documentMetrics, finalMetrics,
                   processMetrics, againMetrics>>

\* process-documents handler, lines 607-612: the two-argument merge and the
\* processMetrics built from it (the || defaults leave defined values alone,
\* except an empty totalTime).
MergeTwo ==
    /\ req = "merge" /\ mergePc = "merge"
    /\ LET m == mergeMetrics(workflowMetrics, documentMetrics, NoOptimization)
       IN  /\ finalMetrics' = m
           /\ processMetrics' =
                [totalSteps |-> m.totalSteps,
                 totalTime |-> IF Truthy(m.totalTime) THEN m.totalTime ELSE Unknown,
                 stepTimes |-> m.stepTimes]
    /\ mergePc' = "merged"
    /\ UNCHANGED <<parseVars, optVars, combineVars, uploadVars, uploaderVars, req, mergeIn, workflowMetrics, documentMetrics,
                   againMetrics>>

\* mergeMetrics called with optimization metrics as third argument.
MergeThree ==
    /\ req = "merge" /\ mergePc = "merge"
    /\ \E opt \in OptimizationMetrics :
         /\ finalMetrics' = mergeMetrics(workflowMetrics, documentMetrics, opt)
         /\ mergeIn' = mergeIn @@ [opt |-> opt]
    /\ mergePc' = "merged3"
    /\ UNCHANGED <<parseVars, optVars, combineVars, uploadVars, uploaderVars, req, workflowMetrics, documentMetrics,
                   processMetrics, againMetrics>>

\* The merge run again on its own result.
MergeAgain ==
    /\ req = "merge" /\ mergePc = "merged"
    /\ againMetrics' =
         [withDoc |-> mergeMetrics(finalMetrics, documentMetrics, NoOptimization),
          withSelf |-> mergeMetrics(finalMetrics, finalMetrics, NoOptimization),
          docSelf |-> mergeMetrics(documentMetrics, documentMetrics, NoOptimization)]
    /\ mergePc' = "remerged"
    /\ UNCHANGED <<parseVars, optVars, combineVars, uploadVars, uploaderVars, req, mergeIn, workflowMetrics, documentMetrics,
                   finalMetrics, processMetrics>>

MergeNext ==
    \/ ExtractDocumentMetrics
    \/ ExtractWorkflowMetrics
    \/ MergeTwo
    \/ MergeThree
    \/ MergeAgain

----------------------------------------------------------------------------
(* JavaScript values as JSON.parse yields them *)

Absent == [t |-> "absent"]

Null == [t |-> "null"]

Num(n) == [t |-> "num", n |-> n]

Str(s) == [t |-> "str", s |-> s]

Arr(items) == [t |-> "arr", items |-> items]

Obj == [t |-> "obj"]

\* !v
Falsy(v) ==
    \/ v.t \in {"absent", "null"}
    \/ (v.t = "num" /\ v.n = 0)
    \/ (v.t = "str" /\ v.s = EmptyString)

\* v.length === 0   (undefined === 0 is false for values without a length)
LengthIsZero(v) ==
    \/ (v.t = "arr" /\ Len(v.items) = 0)
    \/ (v.t = "str" /\ v.s = EmptyString)

\* The top-level value of a parse: a primitive, an array, or an object
\* with the six fields the prompt asks for (Absent when left out).
JNull == [t |-> "null"]

JNumber == [t |-> "number"]

JString == [t |-> "string"]

JArray == [t |-> "array"]

JObject(summary, totalSteps, totalTime, suggestions, stepTimes, workflow) ==
    [t |-> "object", summary |-> summary, totalSteps |-> totalSteps,
     totalTime |-> totalTime, suggestions |-> suggestions,
     stepTimes |-> stepTimes, workflow |-> workflow]

IsObjectValue(v) == v.t \in {"object", "array"}

\* A property read: primitives and arrays have none of the six fields.
Field(v, name) == IF v.t = "object" THEN v[name] ELSE Absent

LlmStep(k) ==
    [step |-> k, stepName |-> <<"Llm", k>>, time |-> Dur(<<Tok(10, "min")>>)]

LlmSteps(n) == [k \in 1..n |-> LlmStep(k)]

----------------------------------------------------------------------------
(* utils/metricsExtractor.js: parseOptimizationResult *)

\* The payloads the LLM text may hold.
CleanPayload ==
    JObject(Str(Lit("summary")), Num(2), Str(Dur(<<Tok(1, "hour")>>)),
            Arr(<<"llm1", "llm2">>), Arr(LlmSteps(2)), Str(Lit("graph TD")))

MismatchedPayload ==
    JObject(Absent, Num(1), Absent, Arr(<<"llm1">>), Arr(LlmSteps(2)), Absent)

EmptyPayload == JObject(Absent, Absent, Absent, Absent, Absent, Absent)

NoSuggestionsPayload ==
    JObject(Str(Lit("summary")), Absent, Str(Dur(<<Tok(2, "hours")>>)),
            Arr(<<>>), Absent, Absent)

SingleSuggestionPayload ==
    JObject(Str(Lit("summary")), Num(2), Absent, Obj, Absent, Absent)

\* "stepTimes": {"1": "10 min", "2": "5 min"}: an object, not a list.
ObjectStepTimesPayload ==
    JObject(Str(Lit("summary")), Num(2), Absent, Arr(<<"llm1">>), Obj, Absent)

\* A list shorter than the count.
ShortListPayload ==
    JObject(Absent, Num(3), Absent, Absent, Arr(LlmSteps(1)), Absent)

ParsedValues ==
    {JNull, JNumber, JString, JArray, CleanPayload, MismatchedPayload,
     EmptyPayload, NoSuggestionsPayload, SingleSuggestionPayload,
     ObjectStepTimesPayload, ShortListPayload}

\* A piece of text, by what JSON.parse makes of it: "ok" parses to value,
\* "trailingComma" parses to value only once the commas before ] and } are
\* removed, "bad" is a SyntaxError either way.
BadJson == [syntax |-> "bad", value |-> JNull]

JsonTexts ==
    {BadJson}
    \cup {[syntax |-> "ok", value |-> v] : v \in ParsedValues}
    \cup {[syntax |-> "trailingComma", value |-> v] :
            v \in {CleanPayload, JArray}}

\* The first ``` block of the text: none, an empty one, or one with a body.
Fences ==
    {[kind |-> "none", body |-> BadJson], [kind |-> "empty", body |-> BadJson]}
    \cup {[kind |-> "block", body |-> jt] : jt \in JsonTexts}

\* What the regular expressions of the third strategy find in the text:
\* summary and workflow found or not, the integer after "total steps" (0:
\* no match), the total time (EmptyString: no match), and the suggestions
\* array text: "none", "bad" (does not parse after the repairs), or the
\* array it parses to.
NoProbes ==
    [summary |-> FALSE, totalSteps |-> 0, totalTime |-> EmptyString,
     suggestions |-> "none", items |-> <<>>, workflow |-> FALSE]

Probes ==
    { NoProbes,
      [NoProbes EXCEPT !.totalSteps = 7, !.suggestions = "array",
                       !.items = <<"llm1", "llm2">>],
      [NoProbes EXCEPT !.suggestions = "bad"],
      [NoProbes EXCEPT !.suggestions = "array"],
      [NoProbes EXCEPT !.summary = TRUE, !.totalTime = Dur(<<Tok(90, "minutes")>>),
                       !.workflow = TRUE] }

\* The argument of parseOptimizationResult: not a string (undefined, null,
\* a number), or a text.  A text that is a JSON null or number holds nothing
\* else.
RawTexts ==
    {[t |-> "nonstring"]}
    \cup {r \in [t : {"string"}, fence : Fences, whole : JsonTexts, probes : Probes] :
            (r.whole.syntax = "ok" /\ r.whole.value \in {JNull, JNumber})
                => (r.fence.kind = "none" /\ r.probes = NoProbes)}

GenericSuggestion == "Process Optimization"

defaultOptimizationResult ==
    JObject(Str(Lit("Optimization completed successfully, but result parsing failed.")),
            Null, Null,
            Arr(<<"Streamline Approval Process", "Automate Manual Steps">>),
            Arr(<<>>), Absent)

\* JSON.parse(cleanedJson): the block with trailing commas removed.
ParseCleaned(jt) ==
    IF jt.syntax \in {"ok", "trailingComma"} THEN Return(jt.value)
    ELSE Throw("SyntaxError")

\* JSON.parse(result.trim())
ParseWhole(jt) ==
    IF jt.syntax = "ok" THEN Return(jt.value) ELSE Throw("SyntaxError")

\* The third strategy: each field on its own; a suggestions array that does
\* not parse becomes one generic suggestion.
RecoverFields(probes) ==
    JObject(IF probes.summary THEN Str(Lit("summary")) ELSE Absent,
            IF probes.totalSteps # 0 THEN Num(probes.totalSteps) ELSE Absent,
            IF probes.totalTime # EmptyString THEN Str(probes.totalTime) ELSE Absent,
            CASE probes.suggestions = "none" -> Absent
              [] probes.suggestions = "bad" -> Arr(<<GenericSuggestion>>)
              [] OTHER -> Arr(probes.items),
            Absent,
            IF probes.workflow THEN Str(Lit("graph TD")) ELSE Absent)

\* A first strategy without its return statement: the parse result is kept
\* but the function goes on to the next strategy.
AfterFenceNoReturn(c) == "tier2"

\* Where parseOptimizationResult goes after the parse of the fenced block.
AfterFence(c) == IF c.k = "return" THEN "parsed" ELSE "tier2"

\* Where it goes after the parse of the whole text.
AfterWhole(c) == IF c.k = "return" THEN "parsed" ELSE "tier3"

----------------------------------------------------------------------------
(* utils/optimizationUtils.js *)

\* parseTimeToMinutes of optimizationUtils.js: null (0) for an empty string
\* or "Unknown"; the h/m/d tokens added up; if that gives 0, the first
\* number of the string taken as minutes.
utilsParseTimeToMinutes(timeString) ==
    IF ~Truthy(timeString) \/ timeString = Unknown THEN 0
    ELSE LET total == FirstToken(timeString.toks, HourUnits).n * MinutesPerHour
                      + FirstToken(timeString.toks, MinuteUnits).n
                      + FirstToken(timeString.toks, DayUnits).n
                            * HoursPerWorkday * MinutesPerHour
         IN  IF total = 0 /\ timeString.toks # <<>>
             THEN Head(timeString.toks).n
             ELSE total

\* formatMinutesToTime for a finite number of minutes.
formatMinutesToTime(minutes) ==
    LET hours == minutes \div MinutesPerHour
        remainingMinutes == minutes % MinutesPerHour
    IN  IF hours = 0 THEN Dur(<<Plural(remainingMinutes, "minute")>>)
        ELSE IF remainingMinutes = 0 THEN Dur(<<Plural(hours, "hour")>>)
        ELSE Dur(<<Plural(hours, "hour"), Plural(remainingMinutes, "minute")>>)

----------------------------------------------------------------------------
(* pages/api/optimize-process.js *)

\* JavaScript numbers that may not be finite.
JInt(n) == [k |-> "int", n |-> n]

JNaN == [k |-> "nan", n |-> 0]

JInf == [k |-> "inf", n |-> 0]

JNegInf == [k |-> "-inf", n |-> 0]

JNumNull == [k |-> "null", n |-> 0]

NumTruthy(x) == x.k \in {"inf", "-inf"} \/ (x.k = "int" /\ x.n # 0)

OriginalMetricsSet ==
    { [totalSteps |-> 0, totalTime |-> Unknown, stepTimes |-> <<>>],
      [totalSteps |-> 3, totalTime |-> NotSpecified, stepTimes |-> <<>>],
      [totalSteps |-> 5, totalTime |-> Dur(<<Tok(2, "hours")>>), stepTimes |-> <<>>] }

WorkflowDiagrams ==
    { [diagram |-> [t |-> "text",
                    boxes |-> <<[kind |-> "step", no |-> 1, dur |-> Tok(30, "min")]>>],
       type |-> "flow"] }

\* req.body: either part may be missing.
Bodies ==
    [originalMetrics : OriginalMetricsSet \cup {Absent},
     workflowDiagram : WorkflowDiagrams \cup {Absent}]

OptRequests == [method : {"POST", "GET"}, body : Bodies]

\* line 82
OptimizedTotalSteps(parsed, originalMetrics) ==
    IF ~Falsy(Field(parsed, "totalSteps"))
    THEN Field(parsed, "totalSteps").n
    ELSE (originalMetrics.totalSteps * 7) \div 10

\* lines 84-93
OptimizedTimeMinutes(parsed, originalMetrics) ==
    LET originalTimeMinutes == utilsParseTimeToMinutes(originalMetrics.totalTime)
        optimizedTotalSteps == OptimizedTotalSteps(parsed, originalMetrics)
    IN  IF ~Falsy(Field(parsed, "totalTime"))
        THEN LET m == utilsParseTimeToMinutes(Field(parsed, "totalTime").s)
             IN  IF m = 0 THEN JNumNull ELSE JInt(m)
        ELSE IF originalTimeMinutes = 0 THEN JNumNull
        ELSE IF originalMetrics.totalSteps = 0
             THEN (IF optimizedTotalSteps = 0 THEN JNaN ELSE JInf)
        ELSE JInt((originalTimeMinutes * optimizedTotalSteps)
                      \div originalMetrics.totalSteps)

\* lines 96-97
OptimizedTotalTime(parsed, originalMetrics) ==
    LET optimizedTimeMinutes == OptimizedTimeMinutes(parsed, originalMetrics)
    IN  IF ~Falsy(Field(parsed, "totalTime")) THEN Field(parsed, "totalTime").s
        ELSE IF ~NumTruthy(optimizedTimeMinutes) THEN Unknown
        ELSE IF optimizedTimeMinutes.k = "int"
             THEN formatMinutesToTime(optimizedTimeMinutes.n)
        ELSE Lit("Infinity hours NaN minutes")

OptimizedPlaceholder(k) ==
    [step |-> k, stepName |-> <<"Optimized Step", k>>, time |-> NotSpecified]

RECURSIVE OptimizedPadTo(_, _)
OptimizedPadTo(stepTimes, totalSteps) ==
    IF Len(stepTimes) >= totalSteps THEN stepTimes
    ELSE OptimizedPadTo(Append(stepTimes, OptimizedPlaceholder(Len(stepTimes) + 1)),
                        totalSteps)

\* lines 100-117: parsedResult.stepTimes || [], cut by slice or padded by
\* push.  A value that is no array has no length: undefined !== n holds,
\* undefined > n and undefined < n do not, and the value is left as it is.
OptimizedStepTimes(parsed, optimizedTotalSteps) ==
    LET given == IF Falsy(Field(parsed, "stepTimes")) THEN Arr(<<>>)
                 ELSE Field(parsed, "stepTimes")
    IN  IF given.t # "arr" THEN given
        ELSE IF Len(given.items) = optimizedTotalSteps THEN given
        ELSE IF Len(given.items) > optimizedTotalSteps
             THEN Arr(SubSeq(given.items, 1, optimizedTotalSteps))
             ELSE Arr(OptimizedPadTo(given.items, optimizedTotalSteps))

\* lines 119-125
TimeSavingsPercent(parsed, originalMetrics) ==
    LET originalTimeMinutes == utilsParseTimeToMinutes(originalMetrics.totalTime)
        optimizedTimeMinutes == OptimizedTimeMinutes(parsed, originalMetrics)
        optimizedTotalSteps == OptimizedTotalSteps(parsed, originalMetrics)
    IN  IF originalTimeMinutes # 0 /\ NumTruthy(optimizedTimeMinutes)
        THEN IF optimizedTimeMinutes.k = "int"
             THEN JInt(RoundPercent(originalTimeMinutes - optimizedTimeMinutes.n,
                                    originalTimeMinutes))
             ELSE JNegInf
        ELSE IF originalMetrics.totalSteps = 0
             THEN (IF optimizedTotalSteps = 0 THEN JNaN ELSE JNegInf)
        ELSE JInt(RoundPercent(originalMetrics.totalSteps - optimizedTotalSteps,
                               originalMetrics.totalSteps))

HandlerDefaultSuggestions ==
    Arr(<<"Streamline Approval Process", "Automate Manual Data Entry",
          "Eliminate Redundant Reviews">>)

\* lines 143-161: the defaults are put in when the field is falsy or has
\* length 0.
EnsureSuggestions(suggestions) ==
    IF Falsy(suggestions) \/ LengthIsZero(suggestions)
    THEN HandlerDefaultSuggestions
    ELSE suggestions

\* lines 76-180, given the value parseOptimizationResult returned: the 200
\* response, or the TypeError of reading a property of null, or of setting
\* one on a primitive (lines 139 and 144, strict mode).
BuildResponse(parsed, body) ==
    IF parsed.t \in {"null", "number", "string"}
    THEN Throw(TypeErrorMessage)
    ELSE LET originalMetrics == body.originalMetrics
             optimizedTotalSteps == OptimizedTotalSteps(parsed, originalMetrics)
         IN  Return(
               [summary |-> IF Falsy(Field(parsed, "summary"))
                            THEN Str(Lit("By implementing these optimizations"))
                            ELSE Field(parsed, "summary"),
                suggestions |-> EnsureSuggestions(Field(parsed, "suggestions")),
                metrics |-> [totalSteps |-> optimizedTotalSteps,
                             totalTime |-> OptimizedTotalTime(parsed, originalMetrics),
                             stepTimes |-> OptimizedStepTimes(parsed, optimizedTotalSteps)],
                workflowDiagram |->
                    [diagram |-> IF Falsy(Field(parsed, "workflow"))
                                 THEN Str(Lit("original diagram"))
                                 ELSE Field(parsed, "workflow"),
                     type |-> "mermaid"],
                timeSavingsPercent |-> TimeSavingsPercent(parsed, originalMetrics),
                provider |-> "Claude"])

\* parsedResult once the handler has built its response: push (line 111)
\* appends to the array parsedResult.stepTimes itself when there is one
\* (slice copies), and lines 139 and 144 assign parsedResult.summary and
\* parsedResult.suggestions.
ResultAfterResponse(parsed, body) ==
    LET optimizedTotalSteps == OptimizedTotalSteps(parsed, body.originalMetrics)
        given == Field(parsed, "stepTimes")
        summary == IF Falsy(Field(parsed, "summary"))
                   THEN Str(Lit("By implementing these optimizations"))
                   ELSE Field(parsed, "summary")
        suggestions == EnsureSuggestions(Field(parsed, "suggestions"))
    IN  IF parsed.t = "object"
        THEN [parsed EXCEPT
                !.summary = summary,
                !.suggestions = suggestions,
                !.stepTimes = IF ~Falsy(given) /\ given.t = "arr"
                                 /\ Len(given.items) < optimizedTotalSteps
                              THEN Arr(OptimizedPadTo(given.items, optimizedTotalSteps))
                              ELSE given]
        ELSE [t |-> parsed.t, summary |-> summary, suggestions |-> suggestions]

Response(status, body) == [status |-> status, body |-> body]

NoResponse == [status |-> 0, body |-> Idle]

OptInit ==
    /\ req = "optimize"
    /\ optIn \in OptRequests
    /\ optPc = "receive"
    /\ optText = Idle
    /\ optError = NoExc
    /\ tiersRun = <<>>
    /\ parsedResult = Idle
    /\ optResponse = NoResponse

OptIdle ==
    /\ optIn = Idle
    /\ optPc = "idle"
    /\ optText = Idle
    /\ optError = NoExc
    /\ tiersRun = <<>>
    /\ parsedResult = Idle
    /\ optResponse = NoResponse

\* lines 14-23: the method and the body are checked.
OptReceive ==
    /\ req = "optimize" /\ optPc = "receive"
    /\ IF optIn.method # "POST"
       THEN /\ optResponse' = Response(405, [error |-> "Method not allowed"])
            /\ optPc' = "responded"
       ELSE IF optIn.body.originalMetrics = Absent \/ optIn.body.workflowDiagram = Absent
            THEN /\ optResponse' = Response(400, [error |-> "Missing required data"])
                 /\ optPc' = "responded"
            ELSE /\ optResponse' = optResponse
                 /\ optPc' = "callPrimary"
    /\ UNCHANGED <<parseVars, mergeVars, combineVars, uploadVars, uploaderVars, req, optIn, optText, optError, tiersRun,
                   parsedResult>>

\* lines 36-52: the first provider call answers with a text, or fails.
OptCallPrimary ==
    /\ req = "optimize" /\ optPc = "callPrimary"
    /\ \/ \E text \in RawTexts :
            /\ optText' = text
            /\ optPc' = "tier1"
            /\ optError' = optError
       \/ \E m \in {"primary provider failed"} :
            /\ optError' = m
            /\ optPc' = "callFallback"
            /\ optText' = optText
    /\ UNCHANGED <<parseVars, mergeVars, combineVars, uploadVars, uploaderVars, req, optIn, tiersRun, parsedResult, optResponse>>

\* lines 53-71 and 181-187: the call in the catch clause answers, or fails
\* too and its error reaches the handler's catch.
OptCallFallback ==
    /\ req = "optimize" /\ optPc = "callFallback"
    /\ \/ \E text \in RawTexts :
            /\ optText' = text
            /\ optPc' = "tier1"
            /\ optResponse' = optResponse
       \/ \E m \in {"fallback provider failed"} :
            /\ optResponse' = Response(500, [error |-> "Failed to optimize process",
                                             message |-> m])
            /\ optPc' = "responded"
            /\ optText' = optText
    /\ UNCHANGED <<parseVars, mergeVars, combineVars, uploadVars, uploaderVars, req, optIn, optError, tiersRun, parsedResult>>

\* parseOptimizationResult, lines 194-209: result.match on something that
\* is no string throws and the outer catch returns the default object; a
\* fenced block with a body is parsed after the trailing-comma repair.
RecoverFromFence ==
    /\ req = "optimize" /\ optPc = "tier1"
    /\ IF optText.t = "nonstring"
       THEN /\ parsedResult' = Return(defaultOptimizationResult)
            /\ optPc' = "parsed"
            /\ tiersRun' = tiersRun
       ELSE IF optText.fence.kind = "block"
            THEN LET c == ParseCleaned(optText.fence.body)
                 IN  /\ parsedResult' = (IF c.k = "return" THEN c ELSE parsedResult)
                     /\ optPc' = AfterFence(c)
                     /\ tiersRun' = Append(tiersRun, "fence")
            ELSE /\ parsedResult' = parsedResult
                 /\ optPc' = "tier2"
                 /\ tiersRun' = tiersRun
    /\ UNCHANGED <<parseVars, mergeVars, combineVars, uploadVars, uploaderVars, req, optIn, optText, optError, optResponse>>

\* parseOptimizationResult, lines 211-214
RecoverFromWhole ==
    /\ req = "optimize" /\ optPc = "tier2"
    /\ LET c == ParseWhole(optText.whole)
       IN  /\ parsedResult' = (IF c.k = "return" THEN c ELSE parsedResult)
           /\ optPc' = AfterWhole(c)
    /\ tiersRun' = Append(tiersRun, "whole")
    /\ UNCHANGED <<parseVars, mergeVars, combineVars, uploadVars, uploaderVars, req, optIn, optText, optError, optResponse>>

\* parseOptimizationResult, lines 217-264
RecoverFromFields ==
    /\ req = "optimize" /\ optPc = "tier3"
    /\ parsedResult' = Return(RecoverFields(optText.probes))
    /\ optPc' = "parsed"
    /\ tiersRun' = Append(tiersRun, "fields")
    /\ UNCHANGED <<parseVars, mergeVars, combineVars, uploadVars, uploaderVars, req, optIn, optText, optError, optResponse>>

\* handler, lines 76-187
OptRespond ==
    /\ req = "optimize" /\ optPc = "parsed"
    /\ LET c == BuildResponse(parsedResult.v, optIn.body)
       IN  optResponse' =
             IF c.k = "return" THEN Response(200, c.v)
             ELSE Response(500, [error |-> "Failed to optimize process",
                                 message |-> c.m])
    /\ parsedResult' =
          IF BuildResponse(parsedResult.v, optIn.body).k = "return"
          THEN Return(ResultAfterResponse(parsedResult.v, optIn.body))
          ELSE parsedResult
    /\ optPc' = "responded"
    /\ UNCHANGED <<parseVars, mergeVars, combineVars, uploadVars, uploaderVars, req, optIn, optText, optError, tiersRun>>

OptNext ==
    \/ OptReceive
    \/ OptCallPrimary
    \/ OptCallFallback
    \/ RecoverFromFence
    \/ RecoverFromWhole
    \/ RecoverFromFields
    \/ OptRespond

----------------------------------------------------------------------------
(* pages/api/process-documents.js: combineDocumentData *)

MaxDocs == 2

SourceFile == "Source File"

\* The cleaned first lines of the CSV files; an empty first line gives one
\* header, the empty string.
HeaderLists ==
    {<<"A", "B">>, <<"B", "C">>, <<"A", SourceFile>>, <<"">>}

\* The rows a tabular extractor makes for the given headers: one field per
\* header, '' where the line had no value.
RowsFor(headers) ==
    {<<>>,
     <<[h \in Range(headers) |-> IF h = "B" THEN "" ELSE "x,y"]>>}

TabularData ==
    UNION {{[type |-> "csv", parsed |-> TRUE, headers |-> hs,
             content |-> [t |-> "rows", rows |-> rows]] : rows \in RowsFor(hs)} :
            hs \in HeaderLists}
    \cup {[type |-> "excel", parsed |-> TRUE, headers |-> <<"B", "C">>,
           content |-> [t |-> "rows", rows |-> rows]] :
            rows \in RowsFor(<<"B", "C">>)}
    \cup {[type |-> "excel", parsed |-> TRUE, headers |-> <<>>,
           content |-> [t |-> "rows", rows |-> <<>>]]}

TextData ==
    {[type |-> type, parsed |-> TRUE,
      content |-> [t |-> "string", s |-> type \o " text"]] :
        type \in {"pdf", "docx", "text"}}

\* What the handler pushes for one file: the extractor's record with its
\* parsed flag, or a failure entry without extractedData.
DocumentOutcomes ==
    {[parsed |-> TRUE, extractedData |-> d] : d \in TabularData \cup TextData}
    \cup {[parsed |-> FALSE, extractedData |-> Idle]}

FileName(i) == <<"file", i>>

ProcessedDocuments ==
    UNION {[1..n -> DocumentOutcomes] : n \in 1..MaxDocs}

\* handler lines 551-552: the extractor's record, with the file's name put
\* into it.
ExtractedData(docs, i) ==
    [f \in DOMAIN docs[i].extractedData \cup {"fileName"} |->
        IF f = "fileName" THEN FileName(i) ELSE docs[i].extractedData[f]]

\* processedDocuments.filter(doc => doc.parsed), each with its fileName
RECURSIVE ValidFrom(_, _)
ValidFrom(docs, i) ==
    IF i > Len(docs) THEN <<>>
    ELSE (IF docs[i].parsed
          THEN <<[fileName |-> FileName(i), extractedData |-> ExtractedData(docs, i)]>>
          ELSE <<>>)
         \o ValidFrom(docs, i + 1)

ValidDocuments(docs) == ValidFrom(docs, 1)

\* s with the elements of t it does not hold yet added at its end, in t's
\* order: what Set.add does for each element of t.
RECURSIVE AddAll(_, _)
AddAll(s, t) ==
    IF t = <<>> THEN s
    ELSE AddAll(IF Head(t) \in Range(s) THEN s ELSE Append(s, Head(t)), Tail(t))

\* A header collection that keeps every occurrence.
RECURSIVE AllHeadersKeepingDuplicates(_)
AllHeadersKeepingDuplicates(valid) ==
    IF valid = <<>> THEN <<>>
    ELSE Head(valid).extractedData.headers
         \o AllHeadersKeepingDuplicates(Tail(valid))

\* lines 675-682: Array.from of the Set all headers were added to.
RECURSIVE AllHeadersFrom(_, _)
AllHeadersFrom(acc, valid) ==
    IF valid = <<>> THEN acc
    ELSE AllHeadersFrom(AddAll(acc, Head(valid).extractedData.headers), Tail(valid))

AllHeaders(valid) == AllHeadersFrom(<<>>, valid)

\* lines 688-703: every header '', then the row's own values, then the
\* file name under 'Source File'.
StandardizedRow(headers, row, fileName) ==
    [h \in Range(headers) \cup {SourceFile} |->
        IF h = SourceFile THEN [t |-> "fileName", name |-> fileName]
        ELSE IF h \in DOMAIN row THEN [t |-> "value", s |-> row[h]]
        ELSE [t |-> "value", s |-> ""]]

RECURSIVE StandardizedRows(_, _)
StandardizedRows(headers, valid) ==
    IF valid = <<>> THEN <<>>
    ELSE LET doc == Head(valid)
             rows == doc.extractedData.content.rows
         IN  [k \in 1..Len(rows) |-> StandardizedRow(headers, rows[k], doc.fileName)]
             \o StandardizedRows(headers, Tail(valid))

FileNamesOf(valid) == [i \in 1..Len(valid) |-> valid[i].fileName]

DocTypes(valid) == {valid[i].extractedData.type : i \in 1..Len(valid)}

\* lines 664-716
MergeTabular(valid) ==
    LET headers == AllHeaders(valid)
    IN  [type |-> CHOOSE t \in DocTypes(valid) : TRUE,
         parsed |-> TRUE,
         content |-> [t |-> "rows", rows |-> StandardizedRows(headers, valid)],
         headers |-> IF SourceFile \in Range(headers) THEN headers
                     ELSE Append(headers, SourceFile),
         fileNames |-> FileNamesOf(valid)]

\* lines 729-731: a content that is no string goes through JSON.stringify.
AsText(content) ==
    IF content.t = "string" THEN content
    ELSE [t |-> "json", rows |-> content.rows]

\* lines 719-756: one separator line and one content per document.
MergeText(valid) ==
    [type |-> "text",
     parsed |-> TRUE,
     content |-> [i \in 1..Len(valid) |->
                    [separator |-> <<valid[i].fileName>>,
                     text |-> AsText(valid[i].extractedData.content)]],
     fileNames |-> FileNamesOf(valid),
     structuredData |-> [documentCount |-> Len(valid),
                         documentTypes |-> DocTypes(valid),
                         documentNames |-> FileNamesOf(valid),
                         keywords |-> <<>>]]

\* lines 779-786: a value containing a comma is put in double quotes.
QuoteValue(value) == IF value = "x,y" THEN "\"x,y\"" ELSE value

\* lines 773-788: the header line, then one line per row.
TableAsText(data) ==
    [t |-> "table",
     lines |-> <<data.headers>>
               \o [k \in 1..Len(data.content.rows) |->
                     [j \in 1..Len(data.headers) |->
                        QuoteValue(data.content.rows[k][data.headers[j]])]]]

\* lines 759-797
MergeMixed(valid) ==
    [type |-> "text",
     parsed |-> TRUE,
     content |-> [i \in 1..Len(valid) |->
                    [separator |-> <<valid[i].fileName, valid[i].extractedData.type>>,
                     text |-> IF valid[i].extractedData.content.t = "string"
                              THEN valid[i].extractedData.content
                              ELSE TableAsText(valid[i].extractedData)]],
     fileNames |-> FileNamesOf(valid)]

NoValidDocuments ==
    [content |-> [t |-> "string", s |-> "No valid documents to process"],
     type |-> "text", parsed |-> FALSE]

\* A combiner without the branch for a single valid document.
combineWithoutSingleBranch(processedDocuments) ==
    LET validDocuments == ValidDocuments(processedDocuments)
        docTypes == DocTypes(validDocuments)
    IN  IF Len(validDocuments) = 0 THEN NoValidDocuments
        ELSE IF Cardinality(docTypes) = 1 /\ docTypes \subseteq {"csv", "excel"}
             THEN MergeTabular(validDocuments)
        ELSE IF docTypes \cap {"pdf", "docx", "text"} # {}
             THEN MergeText(validDocuments)
        ELSE MergeMixed(validDocuments)

combineDocumentData(processedDocuments) ==
    LET validDocuments == ValidDocuments(processedDocuments)
        docTypes == DocTypes(validDocuments)
    IN  IF Len(validDocuments) = 0 THEN NoValidDocuments
        ELSE IF Len(validDocuments) = 1 THEN validDocuments[1].extractedData
        ELSE IF Cardinality(docTypes) = 1 /\ docTypes \subseteq {"csv", "excel"}
             THEN MergeTabular(validDocuments)
        ELSE IF docTypes \cap {"pdf", "docx", "text"} # {}
             THEN MergeText(validDocuments)
        ELSE MergeMixed(validDocuments)

CombineInit ==
    /\ req = "combine"
    /\ combineIn \in ProcessedDocuments
    /\ combinePc = "start"
    /\ combinedData = Idle

CombineIdle ==
    /\ combineIn = <<>>
    /\ combinePc = "idle"
    /\ combinedData = Idle

\* handler line 589
CombineDocuments ==
    /\ req = "combine" /\ combinePc = "start"
    /\ combinedData' = combineDocumentData(combineIn)
    /\ combinePc' = "done"
    /\ UNCHANGED <<parseVars, mergeVars, optVars, uploadVars, uploaderVars, req, combineIn>>

CombineNext == CombineDocuments

----------------------------------------------------------------------------
(* pages/api/process-documents.js: handler *)

\* The loop over the form fields document0 .. document4.
FieldsChecked == 5

MaxPerField == 6

\* The multipart form, by the number of files under document0, document1,
\* ...: no file, one, two under two fields, several under the one field
\* document0, and one file under document0 with another under document5.
UploadShapes ==
    {<<>>, <<1>>, <<1, 1>>, <<MaxPerField>>, <<1, 0, 0, 0, 0, 1>>}

\* form.parse fails, or gives the files.
Forms ==
    {[ok |-> FALSE, fields |-> <<>>]}
    \cup {[ok |-> TRUE, fields |-> shape] : shape \in UploadShapes}

UploadRequests == [method : {"POST", "GET"}, form : Forms]

RECURSIVE FilesBefore(_, _)
FilesBefore(fields, k) ==
    IF k <= 1 THEN 0 ELSE fields[k - 1] + FilesBefore(fields, k - 1)

\* Every file formidable wrote to the upload directory, numbered in field
\* order.
UploadedFiles(fields) == 1..FilesBefore(fields, Len(fields) + 1)

\* lines 489-500: the files of the first FieldsChecked fields, an array
\* under one field flattened.
CollectedFiles(fields) ==
    LET last == IF Len(fields) < FieldsChecked THEN Len(fields) ELSE FieldsChecked
    IN  [i \in 1..FilesBefore(fields, last + 1) |-> i]

\* What happens to one file in the loop: it has no path; reading it fails;
\* the extractor returns a record, parsed or not, and the temporary file is
\* unlinked, which may fail.
FileOutcomes ==
    {[kind |-> "noPath", unlinked |-> FALSE],
     [kind |-> "readFails", unlinked |-> FALSE],
     [kind |-> "parsed", unlinked |-> TRUE],
     [kind |-> "parsed", unlinked |-> FALSE],
     [kind |-> "notParsed", unlinked |-> TRUE]}

ExtractorError == "extractor error"

\* lines 513-574: the entry pushed for the file.
ProcessedEntry(file, outcome) ==
    CASE outcome.kind = "noPath" ->
           [fileName |-> FileName(file), parsed |-> FALSE,
            error |-> "File path could not be determined"]
      [] outcome.kind = "readFails" ->
           [fileName |-> FileName(file), parsed |-> FALSE,
            error |-> "Failed to read file"]
      [] outcome.kind = "parsed" ->
           [fileName |-> FileName(file), parsed |-> TRUE,
            extractedData |-> [type |-> "text", parsed |-> TRUE,
                               fileName |-> FileName(file)]]
      [] OTHER ->
           [fileName |-> FileName(file), parsed |-> FALSE,
            extractedData |-> [type |-> "pdf", parsed |-> FALSE,
                               error |-> ExtractorError,
                               fileName |-> FileName(file)]]

\* lines 561-566: unlinkSync after the extractor returned, its failure
\* logged only.  A file without a path has no temporary file the handler
\* could name.
TempFileAfter(status, outcome) ==
    IF outcome.kind \in {"parsed", "notParsed"}
    THEN (IF outcome.unlinked THEN "deleted" ELSE "unlinkFailed")
    ELSE IF outcome.kind = "noPath" THEN "noPath"
    ELSE status

\* lines 581-584: doc.error is undefined for an entry without that field,
\* and JSON leaves an undefined field out.
FailureDetail(doc) ==
    IF "error" \in DOMAIN doc
    THEN [fileName |-> doc.fileName, error |-> doc.error]
    ELSE [fileName |-> doc.fileName]

\* lines 620-624
ProcessedFile(doc) ==
    [fileName |-> doc.fileName, parsed |-> doc.parsed,
     type |-> IF "extractedData" \in DOMAIN doc THEN doc.extractedData.type
              ELSE "unknown"]

ServerError(message) ==
    Response(500, [error |-> "Failed to process documents", message |-> message])

UploadInit ==
    /\ req = "upload"
    /\ uploadIn \in UploadRequests
    /\ uploadPc = "receive"
    /\ documentFiles = <<>>
    /\ processedDocs = <<>>
    /\ tempFiles = <<>>
    /\ genErrors = <<>>
    /\ uploadResponse = NoResponse

UploadIdle ==
    /\ uploadIn = Idle
    /\ uploadPc = "idle"
    /\ documentFiles = <<>>
    /\ processedDocs = <<>>
    /\ tempFiles = <<>>
    /\ genErrors = <<>>
    /\ uploadResponse = NoResponse

\* lines 463-506: the method check, form.parse writing the uploaded files to
\* the upload directory, the collection of document0 .. document4.
UploadReceive ==
    /\ req = "upload" /\ uploadPc = "receive"
    /\ IF uploadIn.method # "POST"
       THEN /\ uploadResponse' = Response(405, [error |-> "Method not allowed"])
            /\ uploadPc' = "responded"
            /\ UNCHANGED <<documentFiles, tempFiles>>
       ELSE IF ~uploadIn.form.ok
            THEN /\ uploadResponse' = ServerError("form error")
                 /\ uploadPc' = "responded"
                 /\ UNCHANGED <<documentFiles, tempFiles>>
            ELSE /\ tempFiles' = [f \in UploadedFiles(uploadIn.form.fields) |-> "present"]
                 /\ documentFiles' = CollectedFiles(uploadIn.form.fields)
                 /\ IF Len(CollectedFiles(uploadIn.form.fields)) = 0
                    THEN /\ uploadResponse' =
                              Response(400, [error |-> "No documents uploaded"])
                         /\ uploadPc' = "responded"
                    ELSE /\ uploadResponse' = uploadResponse
                         /\ uploadPc' = "loop"
    /\ UNCHANGED <<parseVars, mergeVars, optVars, combineVars, uploaderVars, req,
                   uploadIn, processedDocs, genErrors>>

\* A loop that is left at the first file that has no path or cannot be
\* read.
ProcessFileUntilFailure ==
    /\ req = "upload" /\ uploadPc = "loop"
    /\ Len(processedDocs) < Len(documentFiles)
    /\ LET file == documentFiles[Len(processedDocs) + 1]
       IN  \E outcome \in FileOutcomes :
             /\ processedDocs' = Append(processedDocs, ProcessedEntry(file, outcome))
             /\ tempFiles' = [tempFiles EXCEPT ![file] = TempFileAfter(@, outcome)]
             /\ uploadPc' = IF outcome.kind \in {"noPath", "readFails"}
                            THEN "generate" ELSE uploadPc
    /\ UNCHANGED <<parseVars, mergeVars, optVars, combineVars, uploaderVars, req,
                   uploadIn, documentFiles, genErrors, uploadResponse>>

\* lines 510-575: one turn of the loop.
ProcessFile ==
    /\ req = "upload" /\ uploadPc = "loop"
    /\ Len(processedDocs) < Len(documentFiles)
    /\ LET file == documentFiles[Len(processedDocs) + 1]
       IN  \E outcome \in FileOutcomes :
             /\ processedDocs' = Append(processedDocs, ProcessedEntry(file, outcome))
             /\ tempFiles' = [tempFiles EXCEPT ![file] = TempFileAfter(@, outcome)]
    /\ UNCHANGED <<parseVars, mergeVars, optVars, combineVars, uploaderVars, req,
                   uploadIn, uploadPc, documentFiles, genErrors, uploadResponse>>

\* lines 578-589: after the loop, the batch is given up when no document
\* was parsed.
CheckProcessed ==
    /\ req = "upload" /\ uploadPc = "loop"
    /\ Len(processedDocs) = Len(documentFiles)
    /\ IF \A i \in 1..Len(processedDocs) : ~processedDocs[i].parsed
       THEN /\ uploadResponse' =
                 Response(400, [error |-> "None of the uploaded documents could be processed",
                                details |-> [i \in 1..Len(processedDocs) |->
                                                FailureDetail(processedDocs[i])]])
            /\ uploadPc' = "responded"
       ELSE /\ uploadResponse' = uploadResponse
            /\ uploadPc' = "generate"
    /\ UNCHANGED <<parseVars, mergeVars, optVars, combineVars, uploaderVars, req,
                   uploadIn, documentFiles, processedDocs, tempFiles, genErrors>>

\* generateFormattedDocument, lines 13-39: the first provider call.
GeneratePrimary ==
    /\ req = "upload" /\ uploadPc = "generate"
    /\ \/ /\ uploadPc' = "workflow"
          /\ genErrors' = genErrors
       \/ /\ uploadPc' = "generateFallback"
          /\ genErrors' = Append(genErrors, "primary generation failed")
    /\ UNCHANGED <<parseVars, mergeVars, optVars, combineVars, uploaderVars, req,
                   uploadIn, documentFiles, processedDocs, tempFiles, uploadResponse>>

\* generateFormattedDocument, lines 39-73: the call in the catch clause; when
\* it fails too, the first error is thrown and reaches the handler's catch
\* (lines 629-636).
GenerateFallback ==
    /\ req = "upload" /\ uploadPc = "generateFallback"
    /\ \/ /\ uploadPc' = "workflow"
          /\ genErrors' = genErrors
          /\ uploadResponse' = uploadResponse
       \/ /\ uploadPc' = "responded"
          /\ genErrors' = Append(genErrors, "fallback generation failed")
          /\ uploadResponse' = ServerError(genErrors[1])
    /\ UNCHANGED <<parseVars, mergeVars, optVars, combineVars, uploaderVars, req,
                   uploadIn, documentFiles, processedDocs, tempFiles>>

\* lines 596-636: generateWorkflow makes one call and rethrows its error;
\* otherwise the 200 response.
GenerateWorkflow ==
    /\ req = "upload" /\ uploadPc = "workflow"
    /\ \/ uploadResponse' =
             Response(200, [success |-> TRUE,
                            documentCount |-> Len(documentFiles),
                            processedFiles |-> [i \in 1..Len(processedDocs) |->
                                                   ProcessedFile(processedDocs[i])]])
       \/ uploadResponse' = ServerError("workflow generation failed")
    /\ uploadPc' = "responded"
    /\ UNCHANGED <<parseVars, mergeVars, optVars, combineVars, uploaderVars, req,
                   uploadIn, documentFiles, processedDocs, tempFiles, genErrors>>

UploadNext ==
    \/ UploadReceive
    \/ ProcessFile
    \/ CheckProcessed
    \/ GeneratePrimary
    \/ GenerateFallback
    \/ GenerateWorkflow

----------------------------------------------------------------------------
(* components/FileUploader.jsx *)

MAX_FILES == 5

MaxSelection == 2

UploadNames == {"a.csv", "b.csv", "c.csv"}

\* A File of a selection: its name, whether its size is within
\* MAX_FILE_SIZE, whether its type is one of acceptedTypes.
SelectedFiles == [name : UploadNames, sizeOk : BOOLEAN, typeOk : BOOLEAN]

Selections == NonEmptySeqsUpTo(SelectedFiles, MaxSelection)

NoUploadError == [kind |-> "null", name |-> ""]

\* lines 62-82: the error of one file of the selection, or NoUploadError;
\* the name is looked up in the list as it was when the selection arrived.
FileError(file, listed) ==
    IF ~file.sizeOk THEN [kind |-> "size", name |-> file.name]
    ELSE IF ~file.typeOk THEN [kind |-> "type", name |-> file.name]
    ELSE IF \E i \in 1..Len(listed) : listed[i].name = file.name
         THEN [kind |-> "duplicate", name |-> file.name]
    ELSE NoUploadError

\* validatedFiles: the files of the selection that raise no error.
RECURSIVE ValidatedFiles(_, _)
ValidatedFiles(newFiles, listed) ==
    IF newFiles = <<>> THEN <<>>
    ELSE (IF FileError(Head(newFiles), listed) = NoUploadError
          THEN <<Head(newFiles)>> ELSE <<>>)
         \o ValidatedFiles(Tail(newFiles), listed)

\* errors[0], or null when no file raised an error.
RECURSIVE FirstError(_, _)
FirstError(newFiles, listed) ==
    IF newFiles = <<>> THEN NoUploadError
    ELSE IF FileError(Head(newFiles), listed) # NoUploadError
         THEN FileError(Head(newFiles), listed)
         ELSE FirstError(Tail(newFiles), listed)

UploaderInit ==
    /\ req = "uploader"
    /\ files = <<>>
    /\ uploadError = NoUploadError

UploaderIdle ==
    /\ files = <<>>
    /\ uploadError = NoUploadError

\* lines 38-94
handleFiles ==
    /\ req = "uploader"
    /\ \E newFiles \in Selections :
         IF Len(files) + Len(newFiles) > MAX_FILES
         THEN /\ uploadError' = [kind |-> "tooMany", name |-> ""]
              /\ files' = files
         ELSE /\ uploadError' = FirstError(newFiles, files)
              /\ files' = files \o ValidatedFiles(newFiles, files)
    /\ UNCHANGED <<parseVars, mergeVars, optVars, combineVars, uploadVars, req>>

\* lines 96-98
removeFile ==
    /\ req = "uploader"
    /\ \E index \in 1..Len(files) :
         files' = [i \in 1..(Len(files) - 1) |->
                     IF i < index THEN files[i] ELSE files[i + 1]]
    /\ UNCHANGED <<parseVars, mergeVars, optVars, combineVars, uploadVars, req,
                   uploadError>>

\* lines 100-166: the list is emptied after a successful upload, an error
\* is shown after a failed one.
uploadFiles ==
    /\ req = "uploader"
    /\ Len(files) > 0
    /\ \/ /\ files' = <<>>
          /\ uploadError' = NoUploadError
       \/ /\ files' = files
          /\ uploadError' = [kind |-> "upload", name |-> ""]
    /\ UNCHANGED <<parseVars, mergeVars, optVars, combineVars, uploadVars, req>>

UploaderNext ==
    \/ handleFiles
    \/ removeFile
    \/ uploadFiles

----------------------------------------------------------------------------
(* Claims about utils/documentParser.js *)

ParseDone == req = "parse" /\ parsePc = "done"

\* C1: parseDocument never raises to its caller: on every branch and for
\* every content it completes by returning a DocumentRecord, and when the
\* extractor of the branch failed, the returned record has parsed = false.
C1_ParseNeverRaises ==
    /\ req = "parse" => parseOut.k # "throw"
    /\ ParseDone =>
          /\ parseOut.k = "return"
          /\ {"content", "type", "parsed"} \subseteq DOMAIN parseOut.v
          /\ parseOut.v.parsed \in BOOLEAN
          /\ parseFailed => parseOut.v.parsed = FALSE

\* C1 witness: an exception left an extractor (plain text branch, content
\* undefined) and parseDocument still returned a record, with parsed = false.
C1_Witness ==
    /\ ParseDone
    /\ Dispatch(parseIn.mime) = "text"
    /\ parseIn.content.t = "undefined"
    /\ parseOut.k = "return"
    /\ parseOut.v.type = "error"
    /\ parseOut.v.parsed = FALSE

\* C2: every record parseDocument returns with parsed = false carries a
\* non-empty error string.
C2_FailedRecordHasError ==
    (ParseDone /\ parseOut.k = "return" /\ parseOut.v.parsed = FALSE)
        => ("error" \in DOMAIN parseOut.v /\ parseOut.v.error # "")

----------------------------------------------------------------------------
(* Claims about mergeMetrics *)

Merged2 == req = "merge" /\ mergePc \in {"merged", "remerged"}

\* C4: the ProcessMetrics produced by the merge step always satisfies
\* stepTimes.length = totalSteps.
C4_StepTimesLengthIsTotalSteps ==
    Merged2 =>
        /\ Len(finalMetrics.stepTimes) = finalMetrics.totalSteps
        /\ Len(processMetrics.stepTimes) = processMetrics.totalSteps

\* C5: mergeMetrics is idempotent: merging the merged result with the
\* document metrics again, or with itself, gives the merged result, and
\* merging the (normalized) document metrics with themselves gives them
\* back, in totalSteps, totalTime and stepTimes.
C5_MergeIdempotent ==
    (req = "merge" /\ mergePc = "remerged") =>
        /\ Core(againMetrics.withDoc) = Core(finalMetrics)
        /\ Core(againMetrics.withSelf) = Core(finalMetrics)
        /\ Core(againMetrics.docSelf) = Core(documentMetrics)

\* C5 witness: a merge that took the document's step count and step times
\* as fallbacks has been merged again.
C5_Witness ==
    /\ req = "merge" /\ mergePc = "remerged"
    /\ workflowMetrics.totalSteps = 0
    /\ workflowMetrics.stepTimes = <<>>
    /\ documentMetrics.totalSteps > 0
    /\ finalMetrics.stepTimes = documentMetrics.stepTimes
    /\ Len(finalMetrics.stepTimes) > 0
    /\ againMetrics.withDoc = finalMetrics

\* C6 as stated: merged totalSteps is the diagram's when non-zero, else the
\* document's; merged totalTime is the diagram's when not "Unknown", else
\* the document's; merged stepTimes is the diagram's list when non-empty,
\* else the document's.
C6_PrecedenceAsStated ==
    Merged2 =>
        /\ finalMetrics.totalSteps =
             (IF workflowMetrics.totalSteps # 0 THEN workflowMetrics.totalSteps
              ELSE documentMetrics.totalSteps)
        /\ finalMetrics.totalTime =
             (IF workflowMetrics.totalTime # Unknown THEN workflowMetrics.totalTime
              ELSE documentMetrics.totalTime)
        /\ finalMetrics.stepTimes =
             (IF workflowMetrics.stepTimes # <<>> THEN workflowMetrics.stepTimes
              ELSE documentMetrics.stepTimes)

\* C6 amended: as stated, except that when the diagram's totalTime is
\* "Unknown" and the document's totalTime is empty, the merged totalTime is
\* "Unknown" (not the document's empty string).
C6_Precedence ==
    Merged2 =>
        /\ finalMetrics.totalSteps =
             (IF workflowMetrics.totalSteps # 0 THEN workflowMetrics.totalSteps
              ELSE documentMetrics.totalSteps)
        /\ finalMetrics.totalTime =
             (IF workflowMetrics.totalTime # Unknown THEN workflowMetrics.totalTime
              ELSE IF documentMetrics.totalTime # EmptyString
                   THEN documentMetrics.totalTime
                   ELSE Unknown)
        /\ finalMetrics.stepTimes =
             (IF workflowMetrics.stepTimes # <<>> THEN workflowMetrics.stepTimes
              ELSE documentMetrics.stepTimes)

\* C6 witness: diagram and document disagree on all three fields and the
\* diagram's values are the merged ones.
C6_Witness ==
    /\ req = "merge" /\ mergePc = "merged"
    /\ workflowMetrics.totalSteps # 0
    /\ documentMetrics.totalSteps # 0
    /\ workflowMetrics.totalSteps # documentMetrics.totalSteps
    /\ workflowMetrics.totalTime # Unknown
    /\ documentMetrics.totalTime \notin {Unknown, EmptyString, NotSpecified}
    /\ workflowMetrics.stepTimes # <<>>
    /\ documentMetrics.stepTimes # <<>>
    /\ workflowMetrics.stepTimes # documentMetrics.stepTimes
    /\ Core(finalMetrics) = Core(workflowMetrics)

\* C7: with optimizationMetrics supplied, timeSavingsPercent equals
\* round((orig - opt) / orig * 100) whenever both total times parse to
\* minutes (also when they are equal or the optimized one is larger), and
\* is the default 30 when either side fails to parse.
C7_SavingsPercent ==
    (req = "merge" /\ mergePc = "merged3") =>
        LET orig == parseTimeToMinutes(finalMetrics.totalTime)
            opt == parseTimeToMinutes(mergeIn.opt.totalTime)
        IN  finalMetrics.optimized.timeSavingsPercent =
                (IF orig # 0 /\ opt # 0
                 THEN RoundPercent(orig - opt, orig)
                 ELSE DefaultSavingsPercent)

----------------------------------------------------------------------------
(* Claims about parseOptimizationResult and the optimize-process handler *)

\* C3: parseOptimizationResult never throws and always returns a non-null,
\* object-valued result, whatever the raw input.
C3_RecoveredIsObject ==
    (req = "optimize" /\ optPc = "parsed") =>
        /\ parsedResult.k = "return"
        /\ IsObjectValue(parsedResult.v)

\* C8: in every 200 response of the optimize-process handler the
\* suggestions field is a non-empty sequence.
C8_SuggestionsNonEmptySequence ==
    (req = "optimize" /\ optPc = "responded" /\ optResponse.status = 200) =>
        /\ optResponse.body.suggestions.t = "arr"
        /\ Len(optResponse.body.suggestions.items) > 0

FenceParses(text) ==
    text.fence.kind = "block" /\ ParseCleaned(text.fence.body).k = "return"

WholeParses(text) == ParseWhole(text.whole).k = "return"

\* C9: parseOptimizationResult tries the fenced block, then the whole text,
\* then the field-by-field recovery, and stops at the first success: the
\* whole text is parsed only when there is no fenced block or its parse
\* failed, the fields are recovered only when both parses failed, and the
\* result is that of the first strategy that succeeded.
C9_FirstSuccessWins ==
    (req = "optimize" /\ optText # Idle /\ optText.t = "string") =>
        /\ tiersRun \in {<<>>, <<"fence">>, <<"whole">>, <<"fence", "whole">>,
                         <<"whole", "fields">>, <<"fence", "whole", "fields">>}
        /\ "fence" \in Range(tiersRun) <=>
              (optText.fence.kind = "block" /\ optPc # "tier1")
        /\ "whole" \in Range(tiersRun) => ~FenceParses(optText)
        /\ "fields" \in Range(tiersRun) =>
              (~FenceParses(optText) /\ ~WholeParses(optText))
        /\ optPc = "parsed" =>
              parsedResult.v =
                    (IF FenceParses(optText) THEN optText.fence.body.value
                     ELSE IF WholeParses(optText) THEN optText.whole.value
                     ELSE RecoverFields(optText.probes))
        /\ optPc \in {"parsed", "responded"} =>
              /\ parsedResult.k = "return"
              /\ tiersRun[Len(tiersRun)] =
                    (IF FenceParses(optText) THEN "fence"
                     ELSE IF WholeParses(optText) THEN "whole"
                     ELSE "fields")

\* C9 witness: the fenced block parsed, the whole text would have parsed to
\* something else and the fields would have given a third result; only the
\* first strategy ran and its value is the result.
C9_Witness ==
    /\ req = "optimize" /\ optPc = "parsed"
    /\ optText.t = "string"
    /\ FenceParses(optText)
    /\ WholeParses(optText)
    /\ optText.whole.value # optText.fence.body.value
    /\ optText.probes # NoProbes
    /\ tiersRun = <<"fence">>
    /\ parsedResult = Return(optText.fence.body.value)

----------------------------------------------------------------------------
(* Claims about combineDocumentData *)

\* The headers of the sources one after the other, in document order.
RECURSIVE SourceHeaders(_)
SourceHeaders(valid) ==
    IF valid = <<>> THEN <<>>
    ELSE Head(valid).extractedData.headers \o SourceHeaders(Tail(valid))

SameTabularType(valid) ==
    /\ Len(valid) >= 2
    /\ \E type \in {"csv", "excel"} : DocTypes(valid) = {type}

\* The position of the first occurrence of h in s.
FirstPosition(s, h) == CHOOSE i \in 1..Len(s) : s[i] = h /\ \A j \in 1..(i - 1) : s[j] # h

\* hs holds every element of concat exactly once, in the order of their
\* first occurrences in concat.
IsOrderedUnion(hs, concat) ==
    /\ Range(hs) = Range(concat)
    /\ \A i, j \in 1..Len(hs) :
          i < j => FirstPosition(concat, hs[i]) < FirstPosition(concat, hs[j])

\* The source rows in document order, each with its file's name.
RECURSIVE SourceRows(_)
SourceRows(valid) ==
    IF valid = <<>> THEN <<>>
    ELSE LET doc == Head(valid)
             rows == doc.extractedData.content.rows
         IN  [k \in 1..Len(rows) |-> [fileName |-> doc.fileName, row |-> rows[k]]]
             \o SourceRows(Tail(valid))

\* Every combined row has a value for every combined header: the source
\* row's where it has the field, '' where it lacks it, the file's name
\* under 'Source File'.
RowsFullyPopulated(combined, valid) ==
    LET sources == SourceRows(valid)
        rows == combined.content.rows
    IN  /\ Len(rows) = Len(sources)
        /\ \A k \in 1..Len(rows) :
              /\ Range(combined.headers) \subseteq DOMAIN rows[k]
              /\ \A h \in Range(combined.headers) :
                    rows[k][h] =
                       (IF h = SourceFile
                        THEN [t |-> "fileName", name |-> sources[k].fileName]
                        ELSE IF h \in DOMAIN sources[k].row
                             THEN [t |-> "value", s |-> sources[k].row[h]]
                             ELSE [t |-> "value", s |-> ""])

\* C10 as stated: the combined headers are the order-preserving,
\* deduplicated union of the sources' headers followed by 'Source File',
\* and every combined row has a value for every header.
C10_HeadersThenSourceFile ==
    (req = "combine" /\ combinePc = "done"
        /\ SameTabularType(ValidDocuments(combineIn))) =>
        LET valid == ValidDocuments(combineIn)
            hs == combinedData.headers
        IN  /\ Len(hs) >= 1
            /\ hs[Len(hs)] = SourceFile
            /\ IsOrderedUnion(SubSeq(hs, 1, Len(hs) - 1),
                              SourceHeaders(valid))
            /\ RowsFullyPopulated(combinedData, valid)

\* C10 amended: the combined headers are the order-preserving, deduplicated
\* union of the sources' headers, followed by 'Source File' only when no
\* source has a header of that name (otherwise 'Source File' stays where
\* the union puts it); every combined row has a value for every header.
C10_HeadersUnion ==
    (req = "combine" /\ combinePc = "done"
        /\ SameTabularType(ValidDocuments(combineIn))) =>
        LET valid == ValidDocuments(combineIn)
            hs == combinedData.headers
            concat == SourceHeaders(valid)
        IN  /\ IF SourceFile \in Range(concat)
               THEN IsOrderedUnion(hs, concat)
               ELSE /\ Len(hs) >= 1
                    /\ hs[Len(hs)] = SourceFile
                    /\ IsOrderedUnion(SubSeq(hs, 1, Len(hs) - 1), concat)
            /\ RowsFullyPopulated(combinedData, valid)

\* C10 witness: sources with headers [A,B] and [B,C], a row each, are
\* combined under [A,B,C,Source File].
C10_Witness ==
    /\ req = "combine" /\ combinePc = "done"
    /\ Len(combineIn) = 2
    /\ combineIn[1].parsed /\ combineIn[2].parsed
    /\ combineIn[1].extractedData.type = "csv"
    /\ combineIn[2].extractedData.type = "csv"
    /\ combineIn[1].extractedData.headers = <<"A", "B">>
    /\ combineIn[2].extractedData.headers = <<"B", "C">>
    /\ Len(combineIn[1].extractedData.content.rows) = 1
    /\ Len(combineIn[2].extractedData.content.rows) = 1
    /\ combinedData.headers = <<"A", "B", "C", SourceFile>>
    /\ Len(combinedData.content.rows) = 2
    /\ combinedData.content.rows[1]["C"] = [t |-> "value", s |-> ""]
    /\ combinedData.content.rows[2]["A"] = [t |-> "value", s |-> ""]

\* The positions of the valid documents.
ValidPositions(docs) == {i \in 1..Len(docs) : docs[i].parsed}

\* C11: when exactly one processed document is valid, combineDocumentData
\* returns that document's record itself, with nothing added or removed,
\* however many invalid documents accompany it.
C11_SingleValidUnchanged ==
    (req = "combine" /\ combinePc = "done"
        /\ Cardinality(ValidPositions(combineIn)) = 1) =>
        \A i \in ValidPositions(combineIn) :
            /\ combinedData = ExtractedData(combineIn, i)
            /\ DOMAIN combinedData = DOMAIN ExtractedData(combineIn, i)

\* C11 witness: one valid tabular record next to an invalid document has
\* been combined, and the result has no fileNames field and no
\* 'Source File' header of the combiner.
C11_Witness ==
    /\ req = "combine" /\ combinePc = "done"
    /\ Len(combineIn) = 2
    /\ ~combineIn[1].parsed
    /\ combineIn[2].parsed
    /\ combineIn[2].extractedData.type = "csv"
    /\ combineIn[2].extractedData.headers = <<"A", "B">>
    /\ combinedData.headers = <<"A", "B">>
    /\ combinedData.fileName = FileName(2)
    /\ "fileNames" \notin DOMAIN combinedData

\* C12: whenever at least one input document is valid, the record
\* combineDocumentData returns has parsed = true and a non-empty fileNames
\* list, in every branch.
C12_ParsedWithFileNames ==
    (req = "combine" /\ combinePc = "done" /\ ValidPositions(combineIn) # {}) =>
        /\ combinedData.parsed = TRUE
        /\ "fileNames" \in DOMAIN combinedData
        /\ Len(combinedData.fileNames) > 0

IsTabular(data) == data.type \in {"csv", "excel"}

\* C13: when the valid records mix tabular and text types, every tabular
\* record is rendered as text, its header line and each row as
\* delimiter-joined lines with values holding the delimiter quoted, and all
\* records are concatenated under per-document delimiters.
C13_TabularRenderedAsLines ==
    LET valid == ValidDocuments(combineIn)
    IN  (req = "combine" /\ combinePc = "done"
            /\ \E i, j \in 1..Len(valid) :
                  /\ IsTabular(valid[i].extractedData)
                  /\ ~IsTabular(valid[j].extractedData)) =>
            /\ combinedData.type = "text"
            /\ Len(combinedData.content) = Len(valid)
            /\ \A i \in 1..Len(valid) :
                  /\ combinedData.content[i].separator[1] = valid[i].fileName
                  /\ combinedData.content[i].text =
                        (IF IsTabular(valid[i].extractedData)
                         THEN TableAsText(valid[i].extractedData)
                         ELSE valid[i].extractedData.content)

----------------------------------------------------------------------------
(* Claims about extractWorkflowMetrics *)

WorkflowExtracted == req = "merge" /\ workflowMetrics # Idle

\* The duration tokens of a diagram, in text order.
DurationTokens(diagram) ==
    LET holding == {i \in 1..Len(diagram.boxes) : diagram.boxes[i].dur.u # "none"}
    IN  [i \in holding |-> diagram.boxes[i].dur]

\* Minutes as they are, hours x60, days x480, over the given tokens.
RECURSIVE TotalOf(_, _)
TotalOf(tokens, positions) ==
    IF positions = {} THEN 0
    ELSE LET i == CHOOSE x \in positions : TRUE
             t == tokens[i]
         IN  (CASE t.u \in HourUnits -> t.n * 60
                [] t.u \in DayUnits -> t.n * 480
                [] OTHER -> t.n)
             + TotalOf(tokens, positions \ {i})

\* "H hour(s)[ M minute(s)]" from 60 minutes on, "M minute(s)" below.
Formatted(total) ==
    LET h == total \div 60
        mi == total % 60
        hours == [n |-> h, u |-> IF h = 1 THEN "hour" ELSE "hours"]
        minutes == [n |-> mi, u |-> IF mi = 1 THEN "minute" ELSE "minutes"]
    IN  [lit |-> "",
         toks |-> IF total >= 60
                  THEN (IF mi > 0 THEN <<hours, minutes>> ELSE <<hours>>)
                  ELSE <<minutes>>]

ReviewAndApprove ==
    [t |-> "text",
     boxes |-> <<[kind |-> "step", no |-> 1, dur |-> Tok(30, "min")],
                 [kind |-> "step", no |-> 2, dur |-> Tok(1, "hour")]>>]

\* C14: extractWorkflowMetrics adds up every duration token of the diagram
\* (minutes as they are, hours x60, days x480) and formats the total as
\* "H hour(s)[ M minute(s)]" from 60 minutes on and "M minute(s)" below; the
\* diagram with "Step 1: Review (30 min)" and "Step 2: Approve (1 hour)"
\* gives totalSteps = 2 and totalTime = "1 hour 30 minutes".
C14_TotalOfAllTokens ==
    WorkflowExtracted =>
        LET tokens == DurationTokens(mergeIn.diagram)
        IN  /\ (DOMAIN tokens # {}) =>
                  workflowMetrics.totalTime = Formatted(TotalOf(tokens, DOMAIN tokens))
            /\ (mergeIn.diagram = ReviewAndApprove) =>
                  /\ workflowMetrics.totalSteps = 2
                  /\ workflowMetrics.totalTime =
                        [lit |-> "", toks |-> <<[n |-> 1, u |-> "hour"],
                                                [n |-> 30, u |-> "minutes"]>>]

\* C14 witness: a diagram holding a days token and an hours token has been
\* measured: 2 days and 1 hour are 17 hours.
C14_Witness ==
    /\ WorkflowExtracted
    /\ Len(mergeIn.diagram.boxes) = 2
    /\ mergeIn.diagram.boxes[1].dur = Tok(2, "days")
    /\ mergeIn.diagram.boxes[2].dur = Tok(1, "hour")
    /\ workflowMetrics.totalTime = Dur(<<Tok(17, "hours")>>)

\* C15: extractWorkflowMetrics returns totalTime "Unknown" exactly when the
\* diagram holds no duration token and never returns "0 minutes"; for a
\* missing diagram or an internal failure it returns the zeroed default.
C15_UnknownNotZeroMinutes ==
    WorkflowExtracted =>
        /\ (workflowMetrics.totalTime = Unknown)
              <=> (DOMAIN DurationTokens(mergeIn.diagram) = {})
        /\ workflowMetrics.totalTime # Dur(<<Tok(0, "minutes")>>)
        /\ (mergeIn.diagram.t \in {"missing", "nonstring"}) =>
              /\ workflowMetrics.totalSteps = 0
              /\ workflowMetrics.totalTime = Unknown
              /\ workflowMetrics.stepTimes = <<>>

----------------------------------------------------------------------------
(* Claims about the process-documents handler and the uploader *)

UploadResponded == req = "upload" /\ uploadPc = "responded"

\* C16: when the process-documents request completes, the temporary file
\* of every uploaded file has been deleted, or its deletion attempted,
\* whether reading or parsing it succeeded or failed and whatever the
\* response is.
C16_TempFilesDeleted ==
    UploadResponded =>
        \A f \in DOMAIN tempFiles :
            tempFiles[f] \in {"deleted", "unlinkFailed", "noPath"}

LoopFinished ==
    /\ UploadResponded
    /\ Len(documentFiles) > 0
    /\ Len(processedDocs) = Len(documentFiles)

\* C17: the batch is given up with a client error if and only if no file
\* was parsed, and that response lists a failure reason for every file of
\* the batch.
C17_AbortListsReasons ==
    LoopFinished =>
        /\ (uploadResponse.status \in 400..499)
              <=> (\A i \in 1..Len(processedDocs) : ~processedDocs[i].parsed)
        /\ (uploadResponse.status \in 400..499) =>
              /\ Len(uploadResponse.body.details) = Len(documentFiles)
              /\ \A i \in 1..Len(documentFiles) :
                    /\ "error" \in DOMAIN uploadResponse.body.details[i]
                    /\ uploadResponse.body.details[i].error # ""

\* C18: after the primary provider call of a generation (document
\* formatting, optimization) fails, one fallback call is made and no more;
\* when it fails too, the error surfaced to the caller is the primary
\* call's.
C18_PrimaryErrorSurfaced ==
    /\ (UploadResponded /\ Len(genErrors) > 0) =>
          /\ Len(genErrors) <= 2
          /\ Len(genErrors) = 2 =>
                /\ uploadResponse.status = 500
                /\ uploadResponse.body.message = genErrors[1]
    /\ (req = "optimize" /\ optPc = "responded" /\ optError # NoExc
            /\ optText = Idle) =>
          /\ optResponse.status = 500
          /\ optResponse.body.message = optError

\* C19: after any sequence of handleFiles and removeFile calls no two files
\* of the pending upload list have the same name.
C19_NoDuplicateNames ==
    req = "uploader" =>
        \A i, j \in 1..Len(files) : files[i].name = files[j].name => i = j

\* C20: the uploader's list never holds more than 5 files and the
\* process-documents handler never processes more than 5 files of a
\* request.
C20_AtMostFiveFiles ==
    /\ req = "uploader" => Len(files) <= 5
    /\ req = "upload" => (Len(documentFiles) <= 5 /\ Len(processedDocs) <= 5)

----------------------------------------------------------------------------
(* Claims about parseCSVLine *)

\* The line "a,b",c of the spec's example.
QuotedLine == <<"\"", "a", ",", "b", "\"", ",", "c">>

CsvParsed ==
    /\ ParseDone
    /\ Dispatch(parseIn.mime) = "csv"
    /\ parseIn.content.t = "string"

\* The positions of the data lines parseCsvContent hands to parseCSVLine.
DataLines ==
    {i \in 2..Len(parseIn.content.lines) : Trim(parseIn.content.lines[i]) # <<>>}

\* The number of delimiters of a line from position i on that lie outside
\* double-quoted regions.
RECURSIVE DelimitersOutsideQuotes(_, _, _, _)
DelimitersOutsideQuotes(line, delimiter, i, inside) ==
    IF i > Len(line) THEN 0
    ELSE IF line[i] = "\""
         THEN DelimitersOutsideQuotes(line, delimiter, i + 1, ~inside)
         ELSE (IF line[i] = delimiter /\ ~inside THEN 1 ELSE 0)
              + DelimitersOutsideQuotes(line, delimiter, i + 1, inside)

\* The number of delimiters a list of fields holds inside its fields.
RECURSIVE DelimitersInFields(_, _)
DelimitersInFields(fields, delimiter) ==
    IF fields = <<>> THEN 0
    ELSE Cardinality({k \in 1..Len(Head(fields)) : Head(fields)[k] = delimiter})
         + DelimitersInFields(Tail(fields), delimiter)

\* C21: parseCSVLine does not split a field at a delimiter inside a
\* double-quoted region and removes the enclosing quotes: every delimiter of
\* a data line that lies inside quotes is kept inside a field, no field
\* holds a double quote, and with comma as delimiter the line "a,b",c
\* yields exactly the two fields a,b and c (and the row built from it maps
\* them to the first two headers).
C21_QuotedDelimiterKept ==
    CsvParsed =>
        LET lines == parseIn.content.lines
            delimiter == DetectDelimiter(lines[1])
        IN  \A i \in DataLines :
              LET vals == parseCSVLine(lines[i], delimiter)
              IN  /\ \A j \in 1..Len(vals) : "\"" \notin Range(vals[j])
                  /\ DelimitersInFields(vals, delimiter)
                       + DelimitersOutsideQuotes(lines[i], delimiter, 1, FALSE)
                     = Cardinality({k \in 1..Len(lines[i]) : lines[i][k] = delimiter})
                  /\ (lines[i] = QuotedLine /\ delimiter = ",") =>
                        /\ vals = << <<"a", ",", "b">>, <<"c">> >>
                        /\ lines = << <<"a", ",", "b">>, QuotedLine >> =>
                              parseOut.v.content.rows =
                                << (<<"a">> :> <<"a", ",", "b">>)
                                     @@ (<<"b">> :> <<"c">>) >>

\* C21 witness: the text a,b / "a,b",c was parsed as csv and its one row
\* has the field a,b, comma included, under the first header.
C21_Witness ==
    /\ CsvParsed
    /\ parseIn.content.lines = << <<"a", ",", "b">>, QuotedLine >>
    /\ parseOut.k = "return"
    /\ parseOut.v.parsed = TRUE
    /\ Len(parseOut.v.content.rows) = 1
    /\ parseOut.v.content.rows[1][<<"a">>] = <<"a", ",", "b">>

\* C30: parseCSVLine returns one field per delimiter-separated position of
\* a data line: the number of fields is the number of delimiters outside
\* quotes plus one, also when a field (the last one included) is empty.
C30_OneFieldPerPosition ==
    CsvParsed =>
        LET lines == parseIn.content.lines
            delimiter == DetectDelimiter(lines[1])
        IN  \A i \in DataLines :
              Len(parseCSVLine(lines[i], delimiter))
                = DelimitersOutsideQuotes(lines[i], delimiter, 1, FALSE) + 1

----------------------------------------------------------------------------
(* Claims about parsePdfContent *)

PdfDone == ParseDone /\ Dispatch(parseIn.mime) = "pdf"

\* C26: pdf extraction makes at most two attempts, in order: the primary
\* one with the page renderer, then, only if it failed, one without options.
\* The record is parsed = false only if both attempts failed, and then its
\* error is the primary attempt's message; if the fallback succeeded the
\* record is parsed = true.
C26_PdfTwoAttempts ==
    /\ Len(pdfAttempts) <= 2
    /\ Len(pdfAttempts) >= 1 => pdfAttempts[1].options = TRUE
    /\ Len(pdfAttempts) = 2 =>
          /\ pdfAttempts[1].outcome # "ok"
          /\ pdfAttempts[2].options = FALSE
    /\ PdfDone =>
          /\ Len(pdfAttempts) >= 1
          /\ pdfAttempts[Len(pdfAttempts)].outcome = "ok" <=> parseOut.v.parsed
          /\ pdfAttempts[1].outcome = "ok" => Len(pdfAttempts) = 1
          /\ ~parseOut.v.parsed =>
                /\ Len(pdfAttempts) = 2
                /\ \A k \in 1..2 : pdfAttempts[k].outcome # "ok"
                /\ parseOut.v.error = pdfAttempts[1].outcome
          /\ (Len(pdfAttempts) = 2 /\ pdfAttempts[2].outcome = "ok") =>
                parseOut.v.parsed = TRUE

\* C26 witness: both attempts failed, with different messages.
C26_Witness ==
    /\ PdfDone
    /\ Len(pdfAttempts) = 2
    /\ pdfAttempts[1].outcome # "ok"
    /\ pdfAttempts[2].outcome # "ok"
    /\ pdfAttempts[1].outcome # pdfAttempts[2].outcome
    /\ parseOut.v.parsed = FALSE

----------------------------------------------------------------------------
(* Claims about unparsed records *)

\* A content that is a diagnostic text written by the code.
IsDiagnostic(content) ==
    \/ content.t = "diag"
    \/ content = NoValidDocuments.content

\* C24: every record with parsed = false, from any extractor and from the
\* combiner's placeholder for no valid document, has as content a
\* diagnostic string, never the raw input.
C24_UnparsedContentIsDiagnostic ==
    /\ (ParseDone /\ parseOut.k = "return" /\ parseOut.v.parsed = FALSE)
          => IsDiagnostic(parseOut.v.content)
    /\ (req = "combine" /\ combinePc = "done" /\ combinedData.parsed = FALSE)
          => IsDiagnostic(combinedData.content)

----------------------------------------------------------------------------
(* Claims about the handlers' failure responses *)

IsFailure(response) == response.status >= 400

\* C22: every failure response (status 4xx or 5xx) of the process-documents
\* and the optimize-process handler carries both an error field and a
\* message field.
C22_FailuresCarryErrorAndMessage ==
    /\ (req = "upload" /\ uploadPc = "responded" /\ IsFailure(uploadResponse))
          => {"error", "message"} \subseteq DOMAIN uploadResponse.body
    /\ (req = "optimize" /\ optPc = "responded" /\ IsFailure(optResponse))
          => {"error", "message"} \subseteq DOMAIN optResponse.body

----------------------------------------------------------------------------
(* Claims about the optimize-process handler's response *)

OptOk == req = "optimize" /\ optPc = "responded" /\ optResponse.status = 200

\* C23: in every 200 response of the optimization handler
\* metrics.stepTimes is a list whose length is metrics.totalSteps.
C23_StepTimesMatchTotalSteps ==
    OptOk =>
        /\ optResponse.body.metrics.stepTimes.t = "arr"
        /\ Len(optResponse.body.metrics.stepTimes.items)
              = optResponse.body.metrics.totalSteps

\* C28: ProcessMetrics and RecoveredResult objects are not modified once
\* produced: the metrics extracted from the diagram and from the document
\* stay as they are through every merge, and the object
\* parseOptimizationResult returned stays as it is while the handler builds
\* its response.
C28_ProducedObjectsUnchanged ==
    [][ /\ (req = "merge" /\ workflowMetrics # Idle)
              => workflowMetrics' = workflowMetrics
        /\ (req = "merge" /\ documentMetrics # Idle)
              => documentMetrics' = documentMetrics
        /\ (req = "optimize" /\ parsedResult # Idle)
              => parsedResult' = parsedResult ]_vars

\* C29: in every 200 response of the optimization handler
\* timeSavingsPercent is a finite integer.
C29_SavingsPercentFinite ==
    OptOk => optResponse.body.timeSavingsPercent.k = "int"

----------------------------------------------------------------------------
(* Claims about the loop over the uploaded files *)

AfterLoop ==
    /\ req = "upload"
    /\ uploadPc \in {"generate", "generateFallback", "workflow", "responded"}
    /\ Len(documentFiles) > 0

IsUnreadable(entry) ==
    /\ "error" \in DOMAIN entry
    /\ entry.error \in {"File path could not be determined", "Failed to read file"}

\* C25: a file that has no path or cannot be read is recorded as one failed
\* entry and the loop goes on with the remaining files: the entries are
\* made in upload order, one per file, after the loop there is exactly one
\* entry per collected file, and the 200 response lists one status per
\* file in the same order.
C25_OneEntryPerFile ==
    req = "upload" =>
        /\ Len(processedDocs) <= Len(documentFiles)
        /\ \A i \in 1..Len(processedDocs) :
              /\ processedDocs[i].fileName = FileName(documentFiles[i])
              /\ IsUnreadable(processedDocs[i]) => processedDocs[i].parsed = FALSE
        /\ AfterLoop => Len(processedDocs) = Len(documentFiles)
        /\ (uploadPc = "responded" /\ uploadResponse.status = 200) =>
              /\ Len(uploadResponse.body.processedFiles) = Len(documentFiles)
              /\ \A i \in 1..Len(documentFiles) :
                    /\ uploadResponse.body.processedFiles[i].fileName
                          = FileName(documentFiles[i])
                    /\ uploadResponse.body.processedFiles[i].parsed
                          = processedDocs[i].parsed

\* C25 witness: the first file of a batch of two could not be read, the
\* second was parsed, and the 200 response lists the two of them in order.
C25_Witness ==
    /\ req = "upload" /\ uploadPc = "responded"
    /\ uploadResponse.status = 200
    /\ Len(documentFiles) = 2
    /\ processedDocs[1].parsed = FALSE
    /\ IsUnreadable(processedDocs[1])
    /\ processedDocs[2].parsed
    /\ Len(uploadResponse.body.processedFiles) = 2
    /\ uploadResponse.body.processedFiles[1].parsed = FALSE
    /\ uploadResponse.body.processedFiles[2].parsed = TRUE

----------------------------------------------------------------------------
(* Claims about synthesized step numbers *)

\* The positions of the boxes that are no start/end/begin box, in order.
RECURSIVE NonTerminalBoxes(_, _)
NonTerminalBoxes(boxes, i) ==
    IF i > Len(boxes) THEN <<>>
    ELSE (IF boxes[i].kind # "terminal" THEN <<i>> ELSE <<>>)
         \o NonTerminalBoxes(boxes, i + 1)

SecondaryPassRan ==
    /\ req = "merge"
    /\ workflowMetrics # Idle
    /\ mergeIn.diagram.t = "text"
    /\ PrimaryStepTimes(mergeIn.diagram.boxes) = <<>>

\* C27: synthesized step numbers are dense and start at 1: in the diagram
\* extractor's second pass the k-th box that is no start/end/begin box gets
\* step k, and every placeholder appended by a normalization (of the
\* document metrics, of the optimized step times) gets as step its
\* position in the list.
C27_DenseStepNumbers ==
    /\ SecondaryPassRan =>
          LET kept == NonTerminalBoxes(mergeIn.diagram.boxes, 1)
          IN  /\ Len(workflowMetrics.stepTimes) = Len(kept)
              /\ \A k \in 1..Len(kept) :
                    /\ workflowMetrics.stepTimes[k].step = k
                    /\ workflowMetrics.stepTimes[k].stepName = <<"Box", kept[k]>>
    /\ (req = "merge" /\ documentMetrics # Idle) =>
          \A k \in 1..Len(documentMetrics.stepTimes) :
             documentMetrics.stepTimes[k].stepName[1] = "Step"
                => documentMetrics.stepTimes[k].step = k
    /\ (OptOk /\ optResponse.body.metrics.stepTimes.t = "arr") =>
          LET items == optResponse.body.metrics.stepTimes.items
          IN  \A k \in 1..Len(items) :
                 items[k].stepName[1] = "Optimized Step" => items[k].step = k

\* C27 witness: the diagram's first box is a start box and its second box
\* became step 1, and the document's list of one step was padded with a
\* placeholder numbered 2.
C27_Witness ==
    /\ SecondaryPassRan
    /\ Len(mergeIn.diagram.boxes) = 2
    /\ mergeIn.diagram.boxes[1].kind = "terminal"
    /\ Len(workflowMetrics.stepTimes) = 1
    /\ workflowMetrics.stepTimes[1].step = 1
    /\ workflowMetrics.stepTimes[1].stepName = <<"Box", 2>>
    /\ documentMetrics # Idle
    /\ Len(documentMetrics.stepTimes) = 2
    /\ documentMetrics.stepTimes[1].stepName[1] = "Doc"
    /\ documentMetrics.stepTimes[2] = Placeholder(2)

----------------------------------------------------------------------------

Init ==
    \/ ParseInit /\ MergeIdle /\ OptIdle /\ CombineIdle /\ UploadIdle /\ UploaderIdle
    \/ MergeInit /\ ParseIdle /\ OptIdle /\ CombineIdle /\ UploadIdle /\ UploaderIdle
    \/ OptInit /\ ParseIdle /\ MergeIdle /\ CombineIdle /\ UploadIdle /\ UploaderIdle
    \/ CombineInit /\ ParseIdle /\ MergeIdle /\ OptIdle /\ UploadIdle /\ UploaderIdle
    \/ UploadInit /\ ParseIdle /\ MergeIdle /\ OptIdle /\ CombineIdle /\ UploaderIdle
    \/ UploaderInit /\ ParseIdle /\ MergeIdle /\ OptIdle /\ CombineIdle /\ UploadIdle

Next ==
    \/ ParseNext
    \/ MergeNext
    \/ OptNext
    \/ CombineNext
    \/ UploadNext
    \/ UploaderNext

Spec == Init /\ [][Next]_vars

====
